---- MODULE Spec2Model ----
(***************************************************************************)
(* A model of the query cursor (mongoengine.queryset.QuerySet) and of the  *)
(* delete-cascade resolver of mongoengine.                                 *)
(*                                                                         *)
(* Python values are encoded as follows: None is NoneV for strings and     *)
(* NoneN (-1) for numbers; an attribute that holds None or an object is a  *)
(* sequence of length 0 (None) or 1 (the object).                          *)
(***************************************************************************)
EXTENDS Integers, Sequences, FiniteSets, TLC

VARIABLES
    qs,        \* the QuerySet objects created so far (a sequence of records)
    caches,    \* the heap of _result_cache lists, indexed by reference
    coll,      \* the ids of the documents stored in the Doc collection
    writes,    \* number of writes other clients made to the collection
    last,      \* what the last operation did: its name, receiver and outcome
    store,     \* the Author, Book and Review collections delete() works on
    rules,     \* _meta['delete_rules'] of each of these document classes
    observers, \* who the pre_delete / post_delete receivers are connected for
    dlast,     \* what the last delete() was called on and what it did
    defined,   \* the document classes defined so far
    shares,    \* whose delete_rules dict a class holds (one dict may be shared)
    rlast,     \* the last register_delete_rule call
    upserted,  \* the documents upserts added to the Doc collection
    lk,        \* the last field lookup: the path, the method and its outcome
    graph,     \* the document objects and their change lists
    mem,       \* the attribute values of the Person instance
    db,        \* the stored Person document
    dop,       \* the last operation on a document object and its outcome
    connection_settings, \* _connection_settings: the settings of each alias
    connections,         \* _connections: the client of each alias
    dbs,                 \* _dbs: the database of each alias
    clients,   \* the MongoClient objects made so far and the closed ones
    clast,     \* the last call of the connection module and its outcome
    compiled,  \* what to_query and the class filter gave for one QuerySet
    mongo_query, \* the _mongo_query dict of that QuerySet
    returned,  \* the values the reads of its _query property returned
    iters      \* the iterators __iter__ returned and what each has yielded

cursorVars == <<qs, caches, coll, writes, last>>
deleteVars == <<store, rules, observers, dlast, defined, shares, rlast>>
documentVars == <<upserted, lk, graph, mem, db, dop>>
connectionVars == <<connection_settings, connections, dbs, clients, clast>>
queryVars == <<compiled, mongo_query, returned>>
iterVars == <<iters>>

vars == <<cursorVars, deleteVars, documentVars, connectionVars, queryVars, iterVars>>

NoneV == "None"
NoneN == -1

\* Bounds of the model.
MaxQS == 3          \* QuerySet objects alive at once (the root and its clones)
NDocs == 3          \* documents of the Doc collection
MaxCrit == 2        \* leaf criteria in a criterion tree
MaxWrites == 1      \* writes by other clients

ITER_CHUNK_SIZE == 100
ManyDocs == 102     \* documents of a collection that takes more than one chunk

(***************************************************************************)
(* The document type: Doc, with allow_inheritance and one subclass, Sub.   *)
(* Document i has name "b" when 3 divides i and "a" otherwise, and is a    *)
(* Sub when i is even.  Natural (insertion) order is the order of the ids. *)
(***************************************************************************)
DocIds == 1..NDocs
DocName(d) == IF d % 3 = 0 THEN "b" ELSE "a"
DocCls(d) == IF d % 2 = 0 THEN "Sub" ELSE "Doc"
Names == {"a", "b"}
ClassName == "Doc"
Subclasses == {"Doc", "Sub"}
DefaultOrdering == <<"-name">>

(***************************************************************************)
(* Sequences.                                                              *)
(***************************************************************************)
Take(s, n) == SubSeq(s, 1, IF n < Len(s) THEN n ELSE Len(s))
Drop(s, n) == SubSeq(s, n + 1, Len(s))
Range(s) == {s[i] : i \in 1..Len(s)}

RECURSIVE Ascending(_)
\* A set of integers in ascending order.
Ascending(R) ==
    IF R = {} THEN <<>>
    ELSE LET m == CHOOSE x \in R : \A y \in R : x <= y
         IN <<m>> \o Ascending(R \ {m})

RECURSIVE Buckets(_, _, _)
\* For each key value of ranks in turn, the elements of S that have it, by id.
Buckets(S, key, ranks) ==
    IF ranks = <<>> THEN <<>>
    ELSE SelectSeq([i \in 1..Cardinality(DOMAIN key) |-> i],
                   LAMBDA x : x \in S /\ key[x] = Head(ranks))
         \o Buckets(S, key, Tail(ranks))

\* The elements of S, ids out of 1..n, as a sequence ordered by key[_] and
\* then by id.
SortSet(S, key) == Buckets(S, key, Ascending({key[x] : x \in S}))

(***************************************************************************)
(* The data source.  A compiled query is a conjunction of name criteria    *)
(* and a class filter; a driver cursor holds the options it was built      *)
(* with and the number of documents already pulled from it.                *)
(***************************************************************************)
AllCls == [op |-> "all", names |-> {}]

ClsMatch(c, f) ==
    CASE f.op = "all" -> TRUE
      [] f.op = "eq"  -> c \in f.names
      [] f.op = "in"  -> c \in f.names
      [] f.op = "ne"  -> c \notin f.names
      [] f.op = "nin" -> c \notin f.names

Matches(d, query) ==
    /\ \A i \in 1..Len(query.crit) : DocName(d) = query.crit[i]
    /\ ClsMatch(DocCls(d), query.cls)

NameRank(n) == IF n = "a" THEN 1 ELSE 2

\* pymongo sort: the first key decides (the model's keys are all on name).
SortKey(sort) ==
    [d \in DocIds \cup 1..ManyDocs |->
        IF sort = <<>> THEN 0
        ELSE IF sort[1] = "-name" THEN 0 - NameRank(DocName(d))
        ELSE NameRank(DocName(d))]

\* What find(query).sort(sort).skip(skip).limit(limit) returns on stored;
\* a driver limit of 0 means no limit.
FindDocs(stored, query, sort, skip, limit) ==
    LET hit == {d \in stored : Matches(d, query)}
        ordered == SortSet(hit, SortKey(sort))
        skipped == Drop(ordered, IF skip > Len(ordered) THEN Len(ordered) ELSE skip)
    IN IF limit = 0 THEN skipped ELSE Take(skipped, limit)

CursorDocs(c, stored) ==
    IF c.empty THEN <<>> ELSE FindDocs(stored, c.query, c.sort, c.skip, c.limit)

\* estimated_document_count(query, limit, skip) as the code calls it.
SourceCount(stored, query, skip, limit) ==
    Len(FindDocs(stored, query, <<>>,
                 IF skip = NoneN THEN 0 ELSE skip,
                 IF limit = NoneN THEN 0 ELSE limit))

(***************************************************************************)
(* QuerySet objects.                                                       *)
(***************************************************************************)
nqs == Len(qs)
CacheOf(q) == caches[qs[q].result_cache]

\* QueryFieldList(always_include=['_cls'])
EmptyFieldList == [fields |-> {}, value |-> "ONLY", always_include |-> {"_cls"}]

\* QueryFieldList.__add__: entries of the same mode are united; mixing
\* inclusion and exclusion is refused.
FieldListMixed(lf, fields, value) == lf.fields # {} /\ lf.value # value

FieldListAdd(lf, fields, value) ==
    [lf EXCEPT !.fields = lf.fields \cup fields, !.value = value]

\* QuerySet.__init__ for a document type with allow_inheritance and more than
\* one class name in _subclasses; ref is the new _result_cache list.
InitQuerySet(ref) ==
    [ mongo_query       |-> <<>>,
      query_obj         |-> <<>>,
      initial_query     |-> [op |-> "in", names |-> Subclasses],
      loaded_fields     |-> EmptyFieldList,
      ordering          |-> <<>>,
      timeout           |-> TRUE,
      class_check       |-> TRUE,
      read_preference   |-> NoneV,
      read_concern      |-> NoneV,
      iter              |-> FALSE,
      scalar            |-> <<>>,
      none              |-> FALSE,
      as_pymongo        |-> FALSE,
      as_pymongo_coerce |-> FALSE,
      result_cache      |-> ref,
      has_more          |-> TRUE,
      len               |-> NoneN,
      cursor_obj        |-> <<>>,
      limit             |-> NoneN,
      skip              |-> NoneN,
      hint              |-> "unset",
      batch_size        |-> NoneN,
      auto_dereference  |-> TRUE ]

\* pymongo Cursor.clone(): an unevaluated copy with the same options.
CursorClone(c) == [c EXCEPT !.pos = 0, !.empty = FALSE]

\* The copy loop of clone(): every attribute of copy_props is copied from s
\* onto the new QuerySet c, and the driver cursor, when there is one, cloned.
CopyProps(c, s) ==
    [ c EXCEPT
        !.mongo_query       = s.mongo_query,
        !.initial_query     = s.initial_query,
        !.none              = s.none,
        !.query_obj         = s.query_obj,
        !.loaded_fields     = s.loaded_fields,
        !.ordering          = s.ordering,
        !.timeout           = s.timeout,
        !.class_check       = s.class_check,
        !.read_preference   = s.read_preference,
        !.iter              = s.iter,
        !.scalar            = s.scalar,
        !.as_pymongo        = s.as_pymongo,
        !.as_pymongo_coerce = s.as_pymongo_coerce,
        !.limit             = s.limit,
        !.skip              = s.skip,
        !.hint              = s.hint,
        !.batch_size        = s.batch_size,
        !.auto_dereference  = s.auto_dereference,
        !.cursor_obj        = IF s.cursor_obj # <<>>
                              THEN <<CursorClone(s.cursor_obj[1])>> ELSE <<>> ]

\* A clone() that also hands the receiver's cache list and its bookkeeping to
\* the new QuerySet.
CloneSharedCache(s, ref) ==
    [CopyProps(InitQuerySet(s.result_cache), s) EXCEPT
        !.has_more = s.has_more, !.len = s.len]

\* QuerySet.clone(): a new QuerySet of the same document class and
\* collection, with the attributes of copy_props copied.
Clone(s, ref) == CopyProps(InitQuerySet(ref), s)

\* Q.to_query merged with the class filter (the first half of _query).
CompileQuery(s) ==
    [crit |-> s.query_obj,
     cls  |-> IF s.class_check THEN s.initial_query ELSE AllCls]

\* The _query property: the value it returns ...
QueryOf(s) == IF s.mongo_query # <<>> THEN s.mongo_query[1] ELSE CompileQuery(s)
\* ... and the QuerySet after the read, which stores the compiled query.
WithQuery(s) == [s EXCEPT !.mongo_query = <<QueryOf(s)>>]

\* _get_order_by: "name", "+name" and "-name" become (key, direction) pairs,
\* written "+name" and "-name"; empty keys are dropped.
RECURSIVE OrderKeys(_)
OrderKeys(keys) ==
    IF keys = <<>> THEN <<>>
    ELSE LET k == Head(keys)
             rest == OrderKeys(Tail(keys))
         IN IF k = "" THEN rest
            ELSE IF k = "-name" THEN <<"-name">> \o rest
            ELSE <<"+name">> \o rest

\* _cursor_args
CursorProjection(s) ==
    IF s.loaded_fields.fields # {} THEN <<s.loaded_fields>> ELSE <<>>

\* The _cursor property when no driver cursor exists yet: find() with the
\* compiled query and _cursor_args, then sort, limit, skip, hint, batch_size.
NewCursor(s) ==
    [ query             |-> QueryOf(s),
      projection        |-> CursorProjection(s),
      no_cursor_timeout |-> ~s.timeout,
      read_preference   |-> s.read_preference,
      read_concern      |-> s.read_concern,
      sort  |-> IF s.ordering # <<>> /\ s.ordering[1] # <<>> THEN s.ordering[1]
                ELSE IF s.ordering = <<>> /\ DefaultOrdering # <<>>
                     THEN OrderKeys(DefaultOrdering)
                     ELSE <<>>,
      limit |-> IF s.limit # NoneN THEN s.limit ELSE 0,
      skip  |-> IF s.skip # NoneN THEN s.skip ELSE 0,
      hint  |-> IF s.hint # "unset" THEN s.hint ELSE NoneV,
      batch_size |-> IF s.batch_size # NoneN THEN s.batch_size ELSE 0,
      pos   |-> 0,
      empty |-> FALSE ]

\* The QuerySet after a read of the _cursor property.
WithCursor(s) ==
    IF s.cursor_obj # <<>> THEN s
    ELSE [WithQuery(s) EXCEPT !.cursor_obj = <<NewCursor(s)>>]

CursorOf(s) == WithCursor(s).cursor_obj[1]

\* The same QuerySet with option f of its driver cursor set to v.
SetCursor(s, f, v) ==
    LET c == WithCursor(s)
    IN [c EXCEPT !.cursor_obj = <<[c.cursor_obj[1] EXCEPT ![f] = v]>>]

(***************************************************************************)
(* Chain methods.  Each operator maps the receiver s to the QuerySet the   *)
(* method returns; ref is the _result_cache list __init__ gives the clone. *)
(***************************************************************************)
\* Q.__and__ : the conjunction of two criterion trees.
QAnd(a, b) == a \o b

ReadPreferenceOp(s, ref, rp) ==
    [Clone(s, ref) EXCEPT !.read_preference = rp, !.cursor_obj = <<>>]

ReadConcernOp(s, ref, rc) ==
    [Clone(s, ref) EXCEPT !.read_concern = rc, !.cursor_obj = <<>>]

CallOp(s, ref, query, class_check, rp) ==
    LET queryset == IF rp = NoneV THEN Clone(s, ref)
                    ELSE ReadPreferenceOp(s, ref, rp)
    IN [queryset EXCEPT !.query_obj = QAnd(@, query),
                        !.mongo_query = <<>>,
                        !.cursor_obj = <<>>,
                        !.class_check = class_check]

LimitOp(s, ref, n) ==
    [SetCursor(Clone(s, ref), "limit", IF n = 0 THEN 1 ELSE n) EXCEPT !.limit = n]

SkipOp(s, ref, n) ==
    [SetCursor(Clone(s, ref), "skip", n) EXCEPT !.skip = n]

HintOp(s, ref, index) ==
    [SetCursor(Clone(s, ref), "hint", index) EXCEPT !.hint = index]

BatchSizeOp(s, ref, size) ==
    [SetCursor(Clone(s, ref), "batch_size", size) EXCEPT !.batch_size = size]

OrderByOp(s, ref, keys) ==
    LET queryset == Clone(s, ref)
        key_list == OrderKeys(keys)
        sorted == IF queryset.cursor_obj # <<>>
                  THEN SetCursor(queryset, "sort", key_list)
                  ELSE queryset
    IN [sorted EXCEPT !.ordering = <<key_list>>]

\* fields(): one QueryFieldList is added per projection value.
FieldsOp(s, ref, fields, value) ==
    [Clone(s, ref) EXCEPT !.loaded_fields = FieldListAdd(@, fields, value)]

AllFieldsOp(s, ref) ==
    [Clone(s, ref) EXCEPT
        !.loaded_fields = [EmptyFieldList EXCEPT
                              !.always_include = s.loaded_fields.always_include]]

ClearClsQueryOp(s, ref) == [Clone(s, ref) EXCEPT !.initial_query = AllCls]

OnlyClassesOp(s, ref, classes) ==
    LET allowed == Subclasses \cap classes
    IN [Clone(s, ref) EXCEPT
           !.initial_query = [op |-> IF Cardinality(allowed) = 1 THEN "eq" ELSE "in",
                              names |-> allowed]]

ExcludeClassesOp(s, ref, classes) ==
    LET allowed == Subclasses \cap classes
    IN [Clone(s, ref) EXCEPT
           !.initial_query = [op |-> IF Cardinality(allowed) = 1 THEN "ne" ELSE "nin",
                              names |-> allowed]]

\* no_sub_classes() assigns to the receiver and returns it.
NoSubClassesOp(s) ==
    [s EXCEPT !.initial_query = [op |-> "eq", names |-> {ClassName}]]

NoneOp(s, ref) == [Clone(s, ref) EXCEPT !.none = TRUE]

TimeoutOp(s, ref, enabled) == [Clone(s, ref) EXCEPT !.timeout = enabled]

ScalarOp(s, ref, fields) ==
    LET queryset == [Clone(s, ref) EXCEPT !.scalar = fields]
    IN IF fields # <<>> THEN FieldsOp(queryset, ref, Range(fields), "ONLY")
       ELSE AllFieldsOp(queryset, ref)

AsPymongoOp(s, ref, coerce_types) ==
    [Clone(s, ref) EXCEPT !.as_pymongo = TRUE, !.as_pymongo_coerce = coerce_types]

NoDereferenceOp(s, ref) == [Clone(s, ref) EXCEPT !.auto_dereference = FALSE]

\* pymongo Cursor.__getitem__(slice(start, stop)): whether it raises
\* IndexError.  A driver may or may not refuse an empty slice (raisesEmpty).
SliceRaises(start, stop, raisesEmpty) ==
    LET skip == IF start # NoneN THEN start ELSE 0
    IN stop # NoneN /\ (stop - skip < 0 \/ (stop - skip = 0 /\ raisesEmpty))

\* ... and the cursor after it when it does not raise.
SliceCursor(c, start, stop) ==
    LET skip == IF start # NoneN THEN start ELSE 0
    IN [c EXCEPT !.skip = skip,
                 !.limit = IF stop # NoneN THEN stop - skip ELSE 0,
                 !.empty = (stop # NoneN /\ stop - skip = 0)]

\* __getitem__ with a slice, when it returns a QuerySet.
GetItemSliceOp(s, ref, start, stop, raisesEmpty) ==
    LET queryset == WithCursor(Clone(s, ref))
    IN IF SliceRaises(start, stop, raisesEmpty)
       THEN \* the except branch; queryset.limit(0) returns a clone that is dropped
            [queryset EXCEPT !.skip = start,
                             !.limit = stop - (IF start = NoneN THEN 0 ELSE start)]
       ELSE [queryset EXCEPT
                !.cursor_obj = <<SliceCursor(queryset.cursor_obj[1], start, stop)>>,
                !.skip = start,
                !.limit = IF start \notin {NoneN, 0} /\ stop \notin {NoneN, 0}
                          THEN stop - start ELSE stop]

\* __getitem__ with a slice re-raises the driver's IndexError unless the
\* slice is empty (start == stop).
GetItemSliceFails(start, stop, raisesEmpty) ==
    /\ SliceRaises(start, stop, raisesEmpty)
    /\ (IF start = NoneN THEN 0 ELSE start) # stop

(***************************************************************************)
(* Iteration.  An iteration state st is [s, cache, calls, pulled]: the     *)
(* QuerySet, its _result_cache, and the number of calls made to the driver *)
(* cursor and of documents pulled from it so far.                          *)
(***************************************************************************)
NoItem == [id |-> 0, mode |-> "obj"]

Materialise(s, d) ==
    [id |-> d,
     mode |-> IF s.as_pymongo THEN "raw"
              ELSE IF s.scalar # <<>> THEN "scalar" ELSE "obj"]

\* A __next__ without the test of limit 0 and of the none flag.
NextDocNoGuard(s, stored) ==
    LET c == WithCursor(s)
        docs == CursorDocs(c.cursor_obj[1], stored)
        pos == c.cursor_obj[1].pos
    IN IF pos < Len(docs)
       THEN [s |-> [c EXCEPT !.cursor_obj[1].pos = pos + 1], ok |-> TRUE,
             item |-> Materialise(s, docs[pos + 1]), calls |-> 1]
       ELSE [s |-> c, ok |-> FALSE, item |-> NoItem, calls |-> 1]

\* __next__: StopIteration is ok = FALSE.
NextDoc(s, stored) ==
    IF s.limit = 0 \/ s.none
    THEN [s |-> s, ok |-> FALSE, item |-> NoItem, calls |-> 0]
    ELSE LET c == WithCursor(s)
             docs == CursorDocs(c.cursor_obj[1], stored)
             pos == c.cursor_obj[1].pos
         IN IF pos < Len(docs)
            THEN [s |-> [c EXCEPT !.cursor_obj[1].pos = pos + 1], ok |-> TRUE,
                  item |-> Materialise(s, docs[pos + 1]), calls |-> 1]
            ELSE [s |-> c, ok |-> FALSE, item |-> NoItem, calls |-> 1]

\* One turn of the loop of _populate_cache: the next document is appended,
\* or StopIteration clears _has_more.
PopulateStep(st, stored) ==
    LET n == NextDoc(st.s, stored)
    IN IF n.ok
       THEN [s |-> n.s, cache |-> Append(st.cache, n.item),
             calls |-> st.calls + n.calls, pulled |-> st.pulled + 1]
       ELSE [st EXCEPT !.s = [n.s EXCEPT !.has_more = FALSE],
                       !.calls = @ + n.calls]

RECURSIVE PopulateLoop(_, _, _, _)
\* The turns i .. n - 1 of the loop, which ends when _has_more is cleared;
\* the turns are run half by half.
PopulateLoop(st, stored, i, n) ==
    IF i >= n \/ ~st.s.has_more THEN st
    ELSE IF n - i = 1 THEN PopulateStep(st, stored)
    ELSE \* the first half, then the second
         PopulateLoop(PopulateLoop(st, stored, i, (i + n) \div 2), stored,
                      (i + n) \div 2, n)

PopulateCache(st, stored) ==
    IF st.s.has_more THEN PopulateLoop(st, stored, 0, ITER_CHUNK_SIZE) ELSE st

RECURSIVE IterResults(_, _)
\* _iter_results run to its end: it yields the whole cache, populating it
\* while the source has more.
IterResults(st, stored) ==
    IF ~st.s.has_more THEN st
    ELSE IterResults(PopulateCache(st, stored), stored)

StartIter(s, cache) == [s |-> s, cache |-> cache, calls |-> 0, pulled |-> 0]

(***************************************************************************)
(* The cursor specification: chain calls, iteration, len, count, get,      *)
(* rewind and repr on QuerySets over the Doc collection, while another     *)
(* client may write to the collection.                                     *)
(***************************************************************************)
MaxLimit == 2       \* largest argument of limit() and largest slice stop
MaxSkip == 1        \* largest argument of skip() and largest slice start
MaxEvalQS == 2      \* QuerySet objects in the evaluation specification

NoLast ==
    [op |-> "init", q |-> 0, ret |-> 0, arg |-> NoneN, calls |-> 0, pulled |-> 0,
     items |-> <<>>, value |-> NoneN, err |-> NoneV, key |-> <<>>]

NewRef == Len(caches) + 1

\* A chain call on QuerySet q, made with the subscript key (empty for a
\* method call), that returns the new QuerySet new.
ChainKey(op, q, new, key) ==
    /\ nqs < MaxQS
    /\ qs' = Append(qs, new)
    /\ caches' = Append(caches, <<>>)
    /\ last' = [NoLast EXCEPT !.op = op, !.q = q, !.ret = nqs + 1, !.key = key]
    /\ UNCHANGED <<coll, writes, deleteVars, connectionVars, queryVars, iterVars, documentVars>>

Chain(op, q, new) == ChainKey(op, q, new, <<>>)

\* A chain call that raises err before it returns; its clone is dropped.
ChainFailsKey(op, q, err, key) ==
    /\ last' = [NoLast EXCEPT !.op = op, !.q = q, !.err = err, !.key = key]
    /\ UNCHANGED <<qs, caches, coll, writes, deleteVars, connectionVars, queryVars, iterVars, documentVars>>

ChainFails(op, q, err) == ChainFailsKey(op, q, err, <<>>)

Call ==
    \E q \in 1..nqs, query \in {<<>>} \cup {<<n>> : n \in Names},
       class_check \in BOOLEAN, rp \in {NoneV, "secondary"} :
        /\ Len(qs[q].query_obj) + Len(query) <= MaxCrit
        /\ Chain("call", q, CallOp(qs[q], NewRef, query, class_check, rp))

All ==
    \E q \in 1..nqs : Chain("all", q, CallOp(qs[q], NewRef, <<>>, TRUE, NoneV))

Filter ==
    \E q \in 1..nqs, n \in Names :
        /\ Len(qs[q].query_obj) < MaxCrit
        /\ Chain("filter", q, CallOp(qs[q], NewRef, <<n>>, TRUE, NoneV))

Limit ==
    \E q \in 1..nqs, n \in 0..MaxLimit : Chain("limit", q, LimitOp(qs[q], NewRef, n))

Skip ==
    \E q \in 1..nqs, n \in 0..MaxSkip : Chain("skip", q, SkipOp(qs[q], NewRef, n))

Hint ==
    \E q \in 1..nqs, index \in {"name_1", NoneV} :
        Chain("hint", q, HintOp(qs[q], NewRef, index))

BatchSize ==
    \E q \in 1..nqs : Chain("batch_size", q, BatchSizeOp(qs[q], NewRef, 2))

\* _get_order_by hands the key list to sort() of a driver cursor that
\* exists already; a driver may or may not refuse an empty key list
\* (refusesEmpty), and its ValueError leaves order_by().
OrderByFails(s, keys, refusesEmpty) ==
    refusesEmpty /\ s.cursor_obj # <<>> /\ OrderKeys(keys) = <<>>

OrderBy ==
    \E q \in 1..nqs, keys \in {<<>>, <<"name">>, <<"-name">>} :
        \E refusesEmpty \in IF qs[q].cursor_obj # <<>> /\ OrderKeys(keys) = <<>>
                             THEN BOOLEAN ELSE {FALSE} :
            IF OrderByFails(qs[q], keys, refusesEmpty)
            THEN ChainFailsKey("order_by", q, "ValueError", <<keys, refusesEmpty>>)
            ELSE ChainKey("order_by", q, OrderByOp(qs[q], NewRef, keys),
                          <<keys, refusesEmpty>>)

Only ==
    \E q \in 1..nqs :
        IF FieldListMixed(qs[q].loaded_fields, {"name"}, "ONLY")
        THEN ChainFails("only", q, "InvalidQueryError")
        ELSE Chain("only", q, FieldsOp(qs[q], NewRef, {"name"}, "ONLY"))

Exclude ==
    \E q \in 1..nqs :
        IF FieldListMixed(qs[q].loaded_fields, {"name"}, "EXCLUDE")
        THEN ChainFails("exclude", q, "InvalidQueryError")
        ELSE Chain("exclude", q, FieldsOp(qs[q], NewRef, {"name"}, "EXCLUDE"))

Fields ==
    \E q \in 1..nqs, value \in {"ONLY", "EXCLUDE"} :
        IF FieldListMixed(qs[q].loaded_fields, {"id"}, value)
        THEN ChainFails("fields", q, "InvalidQueryError")
        ELSE Chain("fields", q, FieldsOp(qs[q], NewRef, {"id"}, value))

AllFields ==
    \E q \in 1..nqs : Chain("all_fields", q, AllFieldsOp(qs[q], NewRef))

NoneQS ==
    \E q \in 1..nqs : Chain("none", q, NoneOp(qs[q], NewRef))

\* no_sub_classes() returns its receiver: no QuerySet is created.
NoSubClasses ==
    \E q \in 1..nqs :
        /\ qs' = [qs EXCEPT ![q] = NoSubClassesOp(qs[q])]
        /\ last' = [NoLast EXCEPT !.op = "no_sub_classes", !.q = q, !.ret = q]
        /\ UNCHANGED <<caches, coll, writes, deleteVars, connectionVars, queryVars, iterVars, documentVars>>

OnlyClasses ==
    \E q \in 1..nqs, classes \in {{"Sub"}, {"Doc", "Sub"}} :
        Chain("only_classes", q, OnlyClassesOp(qs[q], NewRef, classes))

ExcludeClasses ==
    \E q \in 1..nqs :
        Chain("exclude_classes", q, ExcludeClassesOp(qs[q], NewRef, {"Sub"}))

ClearClsQuery ==
    \E q \in 1..nqs : Chain("clear_cls_query", q, ClearClsQueryOp(qs[q], NewRef))

Timeout ==
    \E q \in 1..nqs : Chain("timeout", q, TimeoutOp(qs[q], NewRef, FALSE))

ReadPreference ==
    \E q \in 1..nqs :
        Chain("read_preference", q, ReadPreferenceOp(qs[q], NewRef, "secondary"))

ReadConcern ==
    \E q \in 1..nqs :
        Chain("read_concern", q, ReadConcernOp(qs[q], NewRef, "majority"))

Scalar ==
    \E q \in 1..nqs, fields \in {<<>>, <<"name">>} :
        IF fields # <<>> /\ FieldListMixed(qs[q].loaded_fields, Range(fields), "ONLY")
        THEN ChainFails("scalar", q, "InvalidQueryError")
        ELSE Chain("scalar", q, ScalarOp(qs[q], NewRef, fields))

AsPymongo ==
    \E q \in 1..nqs, coerce_types \in BOOLEAN :
        Chain("as_pymongo", q, AsPymongoOp(qs[q], NewRef, coerce_types))

NoDereference ==
    \E q \in 1..nqs : Chain("no_dereference", q, NoDereferenceOp(qs[q], NewRef))

GetItemSlice ==
    \E q \in 1..nqs, start \in {NoneN} \cup 0..MaxSkip,
       stop \in {NoneN} \cup 0..MaxLimit, raisesEmpty \in BOOLEAN :
        IF GetItemSliceFails(start, stop, raisesEmpty)
        THEN ChainFailsKey("getitem", q, "IndexError", <<start, stop, raisesEmpty>>)
        ELSE ChainKey("getitem", q,
                      GetItemSliceOp(qs[q], NewRef, start, stop, raisesEmpty),
                      <<start, stop, raisesEmpty>>)

(***************************************************************************)
(* Evaluation: iteration, len, count, get, rewind, repr.                   *)
(***************************************************************************)
\* An __iter__ that reads the data source again on every iteration.
IterateOpRefetch(s, cache, stored) ==
    IterResults(StartIter([s EXCEPT !.iter = TRUE, !.has_more = TRUE], cache), stored)

\* for doc in queryset: ... run to the end of the iteration.
IterateOp(s, cache, stored) ==
    LET it == [s EXCEPT !.iter = TRUE]
    IN IF it.has_more THEN IterResults(StartIter(it, cache), stored)
       ELSE StartIter(it, cache)

Iterate(q) ==
        \E st \in {IterateOp(qs[q], CacheOf(q), coll)} :
           /\ qs' = [qs EXCEPT ![q] = st.s]
           /\ caches' = [caches EXCEPT ![qs[q].result_cache] = st.cache]
           /\ last' = [NoLast EXCEPT !.op = "iter", !.q = q, !.items = st.cache,
                                     !.calls = st.calls, !.pulled = st.pulled]
           /\ UNCHANGED <<coll, writes, deleteVars, connectionVars, queryVars, iterVars, documentVars>>

\* __len__; the state's s.len is the value returned.
LenOp(s, cache, stored) ==
    IF s.len # NoneN THEN StartIter(s, cache)
    ELSE LET st == IF s.has_more THEN IterResults(StartIter(s, cache), stored)
                   ELSE StartIter(s, cache)
         IN [st EXCEPT !.s.len = Len(st.cache)]

LenQS(q) ==
        \E st \in {LenOp(qs[q], CacheOf(q), coll)} :
           /\ qs' = [qs EXCEPT ![q] = st.s]
           /\ caches' = [caches EXCEPT ![qs[q].result_cache] = st.cache]
           /\ last' = [NoLast EXCEPT !.op = "len", !.q = q, !.value = st.s.len,
                                     !.calls = st.calls, !.pulled = st.pulled]
           /\ UNCHANGED <<coll, writes, deleteVars, connectionVars, queryVars, iterVars, documentVars>>

\* A count() that answers from the cached length whatever its flag is.
CountOpCached(s, with_limit_and_skip, stored) ==
    IF s.limit = 0 \/ s.none THEN [s |-> s, value |-> 0, calls |-> 0]
    ELSE IF s.len # NoneN
    THEN [s |-> s, value |-> s.len, calls |-> 0]
    ELSE LET c == WithQuery(WithCursor(s))
             count == SourceCount(stored, QueryOf(c),
                                  IF with_limit_and_skip THEN s.skip ELSE NoneN,
                                  IF with_limit_and_skip THEN s.limit ELSE NoneN)
         IN [s |-> [c EXCEPT !.len = count], value |-> count, calls |-> 1]

\* count(with_limit_and_skip): the receiver afterwards, the value returned
\* and the number of counts run on the data source.
CountOp(s, with_limit_and_skip, stored) ==
    IF s.limit = 0 \/ s.none THEN [s |-> s, value |-> 0, calls |-> 0]
    ELSE IF with_limit_and_skip /\ s.len # NoneN
    THEN [s |-> s, value |-> s.len, calls |-> 0]
    ELSE LET c == WithQuery(WithCursor(s))
             count == SourceCount(stored, QueryOf(c),
                                  IF with_limit_and_skip THEN s.skip ELSE NoneN,
                                  IF with_limit_and_skip THEN s.limit ELSE NoneN)
         IN [s |-> IF with_limit_and_skip THEN [c EXCEPT !.len = count] ELSE c,
             value |-> count, calls |-> 1]

Count(q) ==
    \E with_limit_and_skip \in BOOLEAN :
        \E r \in {CountOp(qs[q], with_limit_and_skip, coll)} :
           /\ qs' = [qs EXCEPT ![q] = r.s]
           /\ last' = [NoLast EXCEPT !.op = "count", !.q = q, !.value = r.value,
                                     !.calls = r.calls,
                                     !.arg = IF with_limit_and_skip THEN 1 ELSE 0]
           /\ UNCHANGED <<caches, coll, writes, deleteVars, connectionVars, queryVars, iterVars, documentVars>>

\* rewind()
RewindOp(s) == [SetCursor(s, "pos", 0) EXCEPT !.iter = FALSE]

Rewind(q) ==
        /\ qs' = [qs EXCEPT ![q] = RewindOp(qs[q])]
        /\ last' = [NoLast EXCEPT !.op = "rewind", !.q = q]
        /\ UNCHANGED <<caches, coll, writes, deleteVars, connectionVars, queryVars, iterVars, documentVars>>

\* __repr__: mid-iteration it reads nothing, otherwise it populates the
\* cache with one chunk.
ReprOp(s, cache, stored) ==
    IF s.iter THEN StartIter(s, cache)
    ELSE PopulateCache(StartIter(s, cache), stored)

Repr(q) ==
        \E st \in {ReprOp(qs[q], CacheOf(q), coll)} :
           /\ qs' = [qs EXCEPT ![q] = st.s]
           /\ caches' = [caches EXCEPT ![qs[q].result_cache] = st.cache]
           /\ last' = [NoLast EXCEPT !.op = "repr", !.q = q,
                                     !.items = IF qs[q].iter THEN <<>> ELSE st.cache,
                                     !.calls = st.calls, !.pulled = st.pulled]
           /\ UNCHANGED <<coll, writes, deleteVars, connectionVars, queryVars, iterVars, documentVars>>

(***************************************************************************)
(* Iterators.  __iter__ returns the generator _iter_results while the      *)
(* source may have more, and an iterator over the cache list otherwise.    *)
(* A generator rests before its first statement or at its yield, with its  *)
(* own pos and upper; pos of a list iterator is the number of items it has *)
(* yielded.                                                                *)
(***************************************************************************)
MaxIters == 2       \* iterators obtained from one QuerySet

Iterator(q, kind) ==
    [q |-> q, kind |-> kind, pos |-> 0, upper |-> 0, started |-> FALSE,
     done |-> FALSE, out |-> <<>>]

\* __iter__: the receiver afterwards and the kind of iterator returned.
IterOp(s) ==
    [s |-> [s EXCEPT !.iter = TRUE],
     kind |-> IF s.has_more THEN "generator" ELSE "list"]

Yield(st, pos, upper) ==
    [st |-> st, pos |-> pos, upper |-> upper, done |-> FALSE,
     item |-> <<st.cache[pos + 1]>>]

Return(st, pos, upper) ==
    [st |-> st, pos |-> pos, upper |-> upper, done |-> TRUE, item |-> <<>>]

RECURSIVE GeneratorLoop(_, _, _)
RECURSIVE GeneratorRest(_, _, _, _)

\* _iter_results from the top of its outer loop.
GeneratorLoop(st, stored, pos) ==
    LET upper == Len(st.cache)
    IN IF pos < upper THEN Yield(st, pos, upper)
       ELSE GeneratorRest(st, stored, pos, upper)

\* _iter_results from the end of its inner loop.
GeneratorRest(st, stored, pos, upper) ==
    IF ~st.s.has_more THEN Return(st, pos, upper)
    ELSE GeneratorLoop(IF Len(st.cache) <= pos THEN PopulateCache(st, stored) ELSE st,
                       stored, pos)

\* next() on the generator: it runs to its next yield or to its return.
GeneratorNext(it, st, stored) ==
    IF ~it.started THEN GeneratorLoop(st, stored, 0)
    ELSE IF it.pos + 1 < it.upper THEN Yield(st, it.pos + 1, it.upper)
    ELSE GeneratorRest(st, stored, it.pos + 1, it.upper)

\* next() on an iterator over the cache list.
ListNext(it, st) ==
    IF it.pos < Len(st.cache)
    THEN [Yield(st, it.pos, 0) EXCEPT !.pos = it.pos + 1]
    ELSE Return(st, it.pos, 0)

\* iter(queryset)
OpenIter(q) ==
    /\ Len(iters) < MaxIters
    /\ \E r \in {IterOp(qs[q])} :
           /\ qs' = [qs EXCEPT ![q] = r.s]
           /\ iters' = Append(iters, Iterator(q, r.kind))
    /\ last' = [NoLast EXCEPT !.op = "__iter__", !.q = q]
    /\ UNCHANGED <<caches, coll, writes, deleteVars, connectionVars, queryVars, documentVars>>

\* next(iterator) on an iterator that has not ended yet.
NextItem(i) ==
    /\ i \in 1..Len(iters)
    /\ ~iters[i].done
    /\ LET q == iters[i].q
       IN \E r \in {IF iters[i].kind = "generator"
                    THEN GeneratorNext(iters[i], StartIter(qs[q], CacheOf(q)), coll)
                    ELSE ListNext(iters[i], StartIter(qs[q], CacheOf(q)))} :
             /\ qs' = [qs EXCEPT ![q] = r.st.s]
             /\ caches' = [caches EXCEPT ![qs[q].result_cache] = r.st.cache]
             /\ iters' = [iters EXCEPT ![i] =
                              [@ EXCEPT !.pos = r.pos, !.upper = r.upper,
                                        !.started = TRUE, !.done = r.done,
                                        !.out = @ \o r.item]]
             /\ last' = [NoLast EXCEPT !.op = "next", !.q = q, !.arg = i,
                                       !.items = r.item, !.calls = r.st.calls,
                                       !.pulled = r.st.pulled,
                                       !.err = IF r.done THEN "StopIteration" ELSE NoneV]
    /\ UNCHANGED <<coll, writes, deleteVars, connectionVars, queryVars, documentVars>>

\* A get() that returns the first document without asking for a second.
GetOpFirstOnly(s, query, stored) ==
    LET queryset == LimitOp(OrderByOp(CallOp(s, 0, query, TRUE, NoneV), 0, <<>>), 0, 2)
        n1 == NextDoc(queryset, stored)
    IN IF ~n1.ok
       THEN [err |-> "DoesNotExist", items |-> <<>>, calls |-> n1.calls,
             pulled |-> 0, counts |-> 0]
       ELSE [err |-> NoneV, items |-> <<n1.item>>, calls |-> n1.calls,
             pulled |-> 1, counts |-> 0]

\* get(**query): the clones it works on are temporaries (cache reference 0).
\* The result names the outcome, the document returned, the calls made to
\* the driver cursor, the documents pulled and the counts run.
GetOp(s, query, stored) ==
    LET queryset == LimitOp(OrderByOp(CallOp(s, 0, query, TRUE, NoneV), 0, <<>>), 0, 2)
        n1 == NextDoc(queryset, stored)
        n2 == NextDoc(n1.s, stored)
    IN IF ~n1.ok
       THEN [err |-> "DoesNotExist", items |-> <<>>, calls |-> n1.calls,
             pulled |-> 0, counts |-> 0]
       ELSE IF ~n2.ok
       THEN [err |-> NoneV, items |-> <<n1.item>>, calls |-> n1.calls + n2.calls,
             pulled |-> 1, counts |-> 0]
       ELSE [err |-> "MultipleObjectsReturned", items |-> <<>>,
             calls |-> n1.calls + n2.calls, pulled |-> 2,
             counts |-> CountOp(RewindOp(n2.s), TRUE, stored).calls]

Get(q) ==
    \E query \in {<<>>} \cup {<<n>> : n \in Names} :
        /\ Len(qs[q].query_obj) + Len(query) <= MaxCrit
        /\ \E r \in {GetOp(qs[q], query, coll)} :
           last' = [NoLast EXCEPT !.op = "get", !.q = q, !.items = r.items,
                                     !.err = r.err, !.calls = r.calls,
                                     !.pulled = r.pulled, !.value = r.counts,
                                     !.arg = IF query = <<>> THEN 0
                                             ELSE NameRank(query[1])]
           /\ UNCHANGED <<qs, caches, coll, writes, deleteVars, connectionVars, queryVars, iterVars, documentVars>>

\* __getitem__ with an integer key: the item returned, or the exception.
\* The driver's Cursor[key] reads one document at skip + key of a clone of
\* the cursor; next(cursor) reads the cursor itself.
GetItemIndexOp(s, key, stored) ==
    LET queryset == WithCursor(Clone(s, 0))
        c == queryset.cursor_obj[1]
        at == FindDocs(stored, c.query, c.sort, c.skip + key, 1)
        following == CursorDocs(c, stored)
    IN IF queryset.scalar # <<>>
       THEN IF at = <<>> THEN [err |-> "IndexError", items |-> <<>>]
            ELSE [err |-> NoneV, items |-> <<[id |-> at[1], mode |-> "scalar"]>>]
       ELSE IF queryset.as_pymongo
       THEN IF following = <<>> THEN [err |-> "StopIteration", items |-> <<>>]
            ELSE [err |-> NoneV, items |-> <<[id |-> following[1], mode |-> "raw"]>>]
       ELSE IF at = <<>> THEN [err |-> "IndexError", items |-> <<>>]
            ELSE [err |-> NoneV, items |-> <<[id |-> at[1], mode |-> "obj"]>>]

\* first(): item 0 of a clone, None (no item) when that raises IndexError.
FirstOp(s, stored) ==
    LET r == GetItemIndexOp(Clone(s, 0), 0, stored)
    IN IF r.err = "IndexError" THEN [err |-> NoneV, items |-> <<>>] ELSE r

First(q) ==
    \E r \in {FirstOp(qs[q], coll)} :
        /\ last' = [NoLast EXCEPT !.op = "first", !.q = q, !.items = r.items,
                                  !.err = r.err]
        /\ UNCHANGED <<qs, caches, coll, writes, deleteVars, connectionVars, queryVars, iterVars, documentVars>>

MaxIndex == 3       \* largest integer subscript

\* The application reads queryset[key] with an integer key.
GetItemIndex(q) ==
    \E key \in 0..MaxIndex :
    \E r \in {GetItemIndexOp(qs[q], key, coll)} :
        /\ last' = [NoLast EXCEPT !.op = "getitem_index", !.q = q, !.arg = key,
                                  !.items = r.items, !.err = r.err]
        /\ UNCHANGED <<qs, caches, coll, writes, deleteVars, connectionVars, queryVars, iterVars, documentVars>>

\* Another client writes to the collection: it removes the newest stored
\* document or inserts the oldest missing one.
WriteOp(stored, insert) ==
    IF insert
    THEN stored \cup {CHOOSE d \in DocIds \ stored : \A e \in DocIds \ stored : d <= e}
    ELSE stored \ {CHOOSE d \in stored : \A e \in stored : d >= e}

Write ==
    \E insert \in BOOLEAN :
        /\ writes < MaxWrites
        /\ IF insert THEN coll # DocIds ELSE coll # {}
        /\ coll' = WriteOp(coll, insert)
        /\ writes' = writes + 1
        /\ last' = [NoLast EXCEPT !.op = "write"]
        /\ UNCHANGED <<qs, caches, deleteVars, connectionVars, queryVars, iterVars, documentVars>>

(***************************************************************************)
(* delete() and the reverse delete rules.  Three document classes: a Book  *)
(* refers to an Author through ref (one reference) and refs (a list of     *)
(* references), a Review refers to a Book through ref, an Author to an     *)
(* Author through ref.  An unset reference is 0.                           *)
(***************************************************************************)
NAuthors == 2       \* Author documents
NBooks == 2         \* Book documents
NReviews == 1       \* Review documents
MaxDepth == 6       \* nested delete() calls before the interpreter gives up
MaxDeletes == 1     \* delete() calls made by the application

DO_NOTHING == 0
NULLIFY == 1
CASCADE == 2
DENY == 3
PULL == 4

Types == {"Author", "Book", "Review"}

\* Poet is a subclass of Author and Novel a subclass of Book; a subclass
\* keeps its documents in the collection of its base class.  The last
\* Author is a Poet and the last Book a Novel.
Classes == Types \cup {"Poet", "Novel"}
Parent(c) == CASE c = "Poet" -> "Author" [] c = "Novel" -> "Book" [] OTHER -> c
Descendants(c) ==
    CASE c = "Author" -> <<"Poet">> [] c = "Book" -> <<"Novel">> [] OTHER -> <<>>

\* cls._subclasses: the name of the class and of its subclasses defined so
\* far.
SubclassNames(c, known) ==
    <<c>> \o SelectSeq(Descendants(c), LAMBDA name : name \in known)

Ids(t) == IF Parent(t) = "Author" THEN 1..NAuthors
          ELSE IF Parent(t) = "Book" THEN 1..NBooks ELSE 1..NReviews

\* The documents of a class: those of the class and of its subclasses.
Members(t) ==
    CASE t = "Poet" -> {NAuthors} [] t = "Novel" -> {NBooks} [] OTHER -> Ids(t)

Absent == [present |-> FALSE, ref |-> 0, refs |-> {}]

Stored(ref, refs) == [present |-> TRUE, ref |-> ref, refs |-> refs]

\* The sender of a signal and the _document of a QuerySet: a document class
\* (Class.objects) or one document (Document._qs).
ClassOf(t) == [kind |-> "class", type |-> t]
InstanceOf(t) == [kind |-> "instance", type |-> t]

\* signals.pre_delete / post_delete .has_receivers_for(sender): a receiver
\* connected for every sender, or for this very sender.
HasReceiversFor(sender) ==
    \/ observers = "any"
    \/ sender.kind = "class" /\ observers = sender.type

\* A QuerySet as delete() sees it.
DeleteQS(document, query, skip, limit, none) ==
    [document |-> document, query |-> query, skip |-> skip, limit |-> limit,
     none |-> none]

QAll == [kind |-> "all", field |-> "", ids |-> {}]
QPk(id) == [kind |-> "pk", field |-> "", ids |-> {id}]
QIn(field, ids) == [kind |-> "in", field |-> field, ids |-> ids]

DocMatches(id, doc, query) ==
    /\ doc.present
    /\ CASE query.kind = "all" -> TRUE
         [] query.kind = "pk" -> id \in query.ids
         [] query.kind = "in" ->
                IF query.field = "refs" THEN doc.refs \cap query.ids # {}
                ELSE doc.ref \in query.ids

\* find(query) on the collection of class t, in natural order.
DeleteFind(st, t, query) ==
    SortSet({id \in Members(t) : DocMatches(id, st[Parent(t)][id], query)},
            [id \in Ids(t) |-> id])

\* The documents iteration of the QuerySet yields (__next__ and the cursor's
\* skip and limit).
DeleteIter(st, c) ==
    IF c.limit = 0 \/ c.none THEN <<>>
    ELSE LET found == DeleteFind(st, c.document.type, c.query)
             skip == IF c.skip = NoneN THEN 0 ELSE c.skip
             skipped == Drop(found, IF skip > Len(found) THEN Len(found) ELSE skip)
         IN IF c.limit = NoneN THEN skipped ELSE Take(skipped, c.limit)

\* Python truth of an int-or-None attribute.
Truthy(n) == n # NoneN /\ n # 0

\* delete_rules[(document_cls, field_name)] = rule on one dict: a new key
\* goes last, a known key keeps its place.
RegisterOp(table, document_cls, field_name, rule) ==
    LET entry == [document_cls |-> document_cls, field_name |-> field_name,
                  rule |-> rule]
        at == {i \in 1..Len(table) : /\ table[i].document_cls = document_cls
                                     /\ table[i].field_name = field_name}
    IN IF at = {} THEN Append(table, entry)
       ELSE [i \in 1..Len(table) |-> IF i \in at THEN entry ELSE table[i]]

\* The rule tables and who shares them.
RuleTables(tables, owners) == [rules |-> tables, shares |-> owners]

\* The body of the loops of register_delete_rule for one class and one
\* referring class: the class's dict, or a new one when it has none or an
\* empty one, gets the entry and is stored; every class that holds the same
\* dict sees the entry.
RegisterEntry(reg, cls, document_cls, field_name, rule) ==
    IF reg.rules[cls] = <<>>
    THEN RuleTables([reg.rules EXCEPT ![cls] =
                        RegisterOp(<<>>, document_cls, field_name, rule)],
                    [reg.shares EXCEPT ![cls] = cls])
    ELSE RuleTables([c \in Classes |->
                        IF reg.shares[c] = reg.shares[cls]
                        THEN RegisterOp(reg.rules[cls], document_cls, field_name, rule)
                        ELSE reg.rules[c]],
                    reg.shares)

RECURSIVE RegisterDocuments(_, _, _, _, _)
\* for document_cls in documents
RegisterDocuments(reg, cls, documents, field_name, rule) ==
    IF documents = <<>> THEN reg
    ELSE RegisterDocuments(RegisterEntry(reg, cls, Head(documents), field_name, rule),
                           cls, Tail(documents), field_name, rule)

RECURSIVE RegisterClasses(_, _, _, _, _)
\* for cls in classes
RegisterClasses(reg, classes, documents, field_name, rule) ==
    IF classes = <<>> THEN reg
    ELSE RegisterClasses(RegisterDocuments(reg, Head(classes), documents, field_name, rule),
                         Tail(classes), documents, field_name, rule)

\* The subclasses of a class defined so far, then the class.
WithSubclasses(cls, known) ==
    SelectSeq(SubclassNames(cls, known), LAMBDA name : name # cls) \o <<cls>>

\* register_delete_rule that leaves the subclasses out.
RegisterDeleteRuleOpOwn(reg, known, cls, document_cls, field_name, rule) ==
    RegisterEntry(reg, cls, document_cls, field_name, rule)

\* cls.register_delete_rule(document_cls, field_name, rule)
RegisterDeleteRuleOp(reg, known, cls, document_cls, field_name, rule) ==
    RegisterClasses(reg, WithSubclasses(cls, known),
                    WithSubclasses(document_cls, known), field_name, rule)

\* A running delete: the collections, the signals sent and the writes made
\* so far, and the exception raised, if any.
DeleteStart(st) == [store |-> st, log |-> <<>>, err |-> NoneV]

Event(ev, t, id, depth) == [ev |-> ev, type |-> t, id |-> id, depth |-> depth]

Emit(m, e) == [m EXCEPT !.log = Append(@, e)]

Raise(m, err) == [m EXCEPT !.err = err]

\* document_cls.objects(field_name__in=self)
Referrers(st, r, targets) ==
    DeleteFind(st, r.document_cls, QIn(r.field_name, Range(targets)))

\* collection.delete_many(query)
DeleteMany(m, t, query, depth) ==
    Emit([m EXCEPT !.store[Parent(t)] =
             [id \in Ids(t) |->
                 IF id \in Members(t) /\ DocMatches(id, @[id], query) THEN Absent
                 ELSE @[id]]],
         Event("delete_many", t, 0, depth))

\* update(unset__field=1) on the referrers of targets
UpdateUnset(m, r, targets, depth) ==
    LET hit == Range(Referrers(m.store, r, targets))
        t == r.document_cls
    IN Emit([m EXCEPT !.store[Parent(t)] =
                [id \in Ids(t) |->
                    IF id \notin hit THEN @[id]
                    ELSE IF r.field_name = "refs" THEN [@[id] EXCEPT !.refs = {}]
                    ELSE [@[id] EXCEPT !.ref = 0]]],
            Event("update_many", t, 0, depth))

\* update(pull_all__field=self) on the referrers of targets
UpdatePullAll(m, r, targets, depth) ==
    LET hit == Range(Referrers(m.store, r, targets))
        t == r.document_cls
    IN Emit([m EXCEPT !.store[Parent(t)] =
                [id \in Ids(t) |->
                    IF id \notin hit THEN @[id]
                    ELSE [@[id] EXCEPT !.refs = @ \ Range(targets)]]],
            Event("update_many", t, 0, depth))

\* The first loop of delete(): a DENY rule with a referrer.
DenyHit(st, table, targets) ==
    \E i \in 1..Len(table) :
        /\ table[i].rule = DENY
        /\ Referrers(st, table[i], targets) # <<>>

RECURSIVE QuerySetDelete(_, _, _, _)
RECURSIVE DocumentDelete(_, _, _, _)
RECURSIVE DeleteLoop(_, _, _, _)
RECURSIVE ApplyRules(_, _, _, _, _)

\* Document.delete of document id of class t, called at nesting depth.
DocumentDelete(m, t, id, depth) ==
    LET sent == Emit(m, Event("pre_delete", t, id, depth))
        done == QuerySetDelete(sent,
                               DeleteQS(InstanceOf(t), QPk(id), NoneN, NoneN, FALSE),
                               FALSE, depth + 1)
    IN IF done.err # NoneV THEN done
       ELSE Emit(done, Event("post_delete", t, id, depth))

\* for doc in queryset: doc.delete()
DeleteLoop(m, t, ids, depth) ==
    IF ids = <<>> \/ m.err # NoneV THEN m
    ELSE DeleteLoop(DocumentDelete(m, t, Head(ids), depth), t, Tail(ids), depth)

\* The second loop of delete(), from rule i on.
ApplyRules(m, table, i, targets, depth) ==
    IF i > Len(table) \/ m.err # NoneV THEN m
    ELSE LET r == table[i]
             ref_q == DeleteQS(ClassOf(r.document_cls),
                               QIn(r.field_name, Range(targets)), NoneN, NoneN, FALSE)
             after ==
                 CASE r.rule = CASCADE ->
                          IF Referrers(m.store, r, targets) # <<>>
                          THEN QuerySetDelete(m, ref_q, FALSE, depth + 1)
                          ELSE m
                   [] r.rule = NULLIFY -> UpdateUnset(m, r, targets, depth)
                   [] r.rule = PULL -> UpdatePullAll(m, r, targets, depth)
                   [] OTHER -> m
         IN ApplyRules(after, table, i + 1, targets, depth)

\* QuerySet.delete(_from_doc_delete) on QuerySet c at nesting depth.
QuerySetDelete(m, c, from_doc_delete, depth) ==
    IF depth > MaxDepth THEN Raise(m, "RecursionError")
    ELSE LET t == c.document.type
             has_delete_signal == HasReceiversFor(c.document)
             call_document_delete ==
                 /\ Truthy(c.skip) \/ Truthy(c.limit) \/ has_delete_signal
                 /\ ~from_doc_delete
             targets == DeleteIter(m.store, c)
         IN IF call_document_delete THEN DeleteLoop(m, t, targets, depth)
            ELSE IF DenyHit(m.store, rules[t], targets)
            THEN Raise(m, "OperationError")
            ELSE LET ruled == ApplyRules(m, rules[t], 1, targets, depth)
                 IN IF ruled.err # NoneV THEN ruled
                    ELSE DeleteMany(ruled, t, c.query, depth)

\* The rules the document classes declare: Book.ref and Book.refs on
\* Author, Review.ref on Book.
RuleChoices ==
    {[cls |-> "Author", document_cls |-> "Book", field_name |-> "ref", rule |-> r] :
        r \in {NULLIFY, CASCADE, DENY}}
    \cup {[cls |-> "Author", document_cls |-> "Book", field_name |-> "refs",
           rule |-> PULL]}
    \cup {[cls |-> "Book", document_cls |-> "Review", field_name |-> "ref", rule |-> r] :
        r \in {NULLIFY, CASCADE, DENY}}

\* The collections before any delete: Book 1 refers to author and to the
\* authors in coauthors, every other Book to the last Author, Review 1 to
\* book (0: to none).
Fixture(author, coauthors, book) ==
    [t \in Types |->
        [id \in Ids(t) |->
            IF t = "Author" THEN Stored(0, {})
            ELSE IF t = "Book"
            THEN (IF id = 1 THEN Stored(author, coauthors) ELSE Stored(NAuthors, {}))
            ELSE (IF id = 1 THEN Stored(book, {}) ELSE Stored(0, {}))]]

Fixtures ==
    {Fixture(author, coauthors, book) :
        author \in {1, NAuthors}, coauthors \in {{}, 1..NAuthors}, book \in {0, 1}}

NoDelete(st) ==
    [op |-> "init", n |-> 0,
     c |-> DeleteQS(ClassOf("Author"), QAll, NoneN, NoneN, FALSE),
     from_doc_delete |-> FALSE, pre |-> st, err |-> NoneV, log |-> <<>>]

\* Before any class has a subclass or a rule.
NoHierarchy ==
    /\ defined = Types
    /\ shares = [c \in Classes |-> NoneV]
    /\ rlast = <<>>

\* The rules that involve the subclasses.
HierarchyChoices ==
    {[cls |-> c, document_cls |-> d, field_name |-> "ref", rule |-> r] :
        c \in {"Author", "Poet"}, d \in {"Book", "Novel"}, r \in {NULLIFY, CASCADE}}

\* A subclass is defined: its _meta starts from that of its base class,
\* delete_rules dict included (inherits), or without one.
DefineSubclass ==
    /\ dlast.n = 0
    /\ \E c \in Classes \ defined, inherits \in BOOLEAN :
           /\ Parent(c) \in defined
           /\ defined' = defined \cup {c}
           /\ rules' = [rules EXCEPT ![c] = IF inherits THEN rules[Parent(c)] ELSE <<>>]
           /\ shares' = [shares EXCEPT ![c] = IF inherits THEN shares[Parent(c)] ELSE NoneV]
    /\ UNCHANGED <<store, observers, dlast, rlast, cursorVars, documentVars, connectionVars, queryVars, iterVars>>

\* A reverse delete rule of choices is registered on a document class.
RegisterDeleteRuleOf(choices) ==
    /\ dlast.n = 0
    /\ \E e \in choices :
           /\ e.cls \in defined /\ e.document_cls \in defined
           /\ \E reg \in {RegisterDeleteRuleOp(RuleTables(rules, shares), defined, e.cls,
                                                e.document_cls, e.field_name, e.rule)} :
                  /\ rules' = reg.rules
                  /\ shares' = reg.shares
           /\ rlast' = <<e>>
    /\ UNCHANGED <<store, observers, dlast, defined, cursorVars, documentVars, connectionVars, queryVars, iterVars>>

\* A document class is declared with a reverse delete rule.
RegisterDeleteRule == RegisterDeleteRuleOf(RuleChoices)

\* The application calls delete() on a QuerySet of a document class.
DeleteCall(t, skip, limit, none, from_doc_delete) ==
    /\ dlast.n < MaxDeletes
    /\ t \in defined
    /\ \E c \in {DeleteQS(ClassOf(t), QAll, skip, limit, none)} :
       \E m \in {QuerySetDelete(DeleteStart(store), c, from_doc_delete, 0)} :
          /\ store' = m.store
          /\ dlast' = [op |-> "delete", n |-> dlast.n + 1, c |-> c,
                       from_doc_delete |-> from_doc_delete, pre |-> store,
                       err |-> m.err, log |-> m.log]
    /\ UNCHANGED <<rules, observers, defined, shares, rlast, cursorVars, documentVars, connectionVars, queryVars, iterVars>>

Delete ==
    \E t \in Types, skip \in {NoneN} \cup 0..MaxSkip,
       limit \in {NoneN} \cup 0..MaxLimit, none \in BOOLEAN,
       from_doc_delete \in BOOLEAN :
        /\ none => skip = NoneN /\ limit = NoneN
        /\ DeleteCall(t, skip, limit, none, from_doc_delete)

\* The application calls delete() on all documents of a defined class.
DeleteAll == \E t \in Classes : DeleteCall(t, NoneN, NoneN, FALSE, FALSE)

\* The application calls delete() on a stored document.
DeleteDocument ==
    /\ dlast.n < MaxDeletes
    /\ \E t \in Types :
       \E id \in Ids(t) :
           /\ store[t][id].present
           /\ \E m \in {DocumentDelete(DeleteStart(store), t, id, 0)} :
                 /\ store' = m.store
                 /\ dlast' = [op |-> "doc_delete", n |-> dlast.n + 1,
                              c |-> DeleteQS(InstanceOf(t), QPk(id), NoneN, NoneN, FALSE),
                              from_doc_delete |-> FALSE, pre |-> store,
                              err |-> m.err, log |-> m.log]
    /\ UNCHANGED <<rules, observers, defined, shares, rlast, cursorVars, documentVars, connectionVars, queryVars, iterVars>>

(***************************************************************************)
(* Writes through a QuerySet: insert, update, update_one and modify.  The  *)
(* answer of the data source to a write is an input: no failure, or one of *)
(* the driver's exceptions with its message and whether a duplicate key    *)
(* caused it.  BulkWriteError is what insert_many raises; a duplicate key  *)
(* met by update_one, update_many and find_one_and_update is raised as     *)
(* DuplicateKeyError.                                                      *)
(***************************************************************************)
NoFault == [exc |-> NoneV, msg |-> NoneV, dup |-> FALSE]
DupMessage == "E11000 duplicate key error"
Fault(exc, msg, dup) == [exc |-> exc, msg |-> msg, dup |-> dup]

UpdateFaults ==
    { Fault("DuplicateKeyError", DupMessage, TRUE),
      Fault("OperationFailure", "not master", FALSE),
      Fault("OperationFailure", "multi not coded yet", FALSE) }

ModifyFaults ==
    { Fault("DuplicateKeyError", DupMessage, TRUE),
      Fault("OperationFailure", "not master", FALSE) }

InsertOneFaults ==
    { Fault("DuplicateKeyError", DupMessage, TRUE),
      Fault("OperationFailure", DupMessage, TRUE),
      Fault("OperationFailure", "not master", FALSE) }

InsertManyFaults ==
    { Fault("BulkWriteError", "batch op errors occurred", TRUE),
      Fault("BulkWriteError", "batch op errors occurred", FALSE),
      Fault("OperationFailure", "not master", FALSE) }

\* An exception the QuerySet raises: its class, the text of the code and the
\* text of the driver's exception it was formatted with (NoneV when none).
Error(type, text, detail) == [type |-> type, text |-> text, detail |-> detail]

\* re.match('^E1100[01] duplicate key', message)
IsDuplicateKeyMessage(msg) ==
    msg \in {DupMessage, "E11001 duplicate key on update"}

\* The except clauses of insert(), in their order.
InsertError(fault) ==
    CASE fault.exc = NoneV -> NoneV
      [] fault.exc = "DuplicateKeyError" ->
             Error("NotUniqueError", "Could not save document", fault.msg)
      [] fault.exc = "BulkWriteError" ->
             Error("NotUniqueError",
                   "Document must not have _id value before bulk write", fault.msg)
      [] OTHER ->
             IF IsDuplicateKeyMessage(fault.msg)
             THEN Error("NotUniqueError", "Tried to save duplicate unique keys",
                        fault.msg)
             ELSE Error("OperationError", "Could not save document", fault.msg)

\* The except clauses of update().
UpdateError(fault) ==
    CASE fault.exc = NoneV -> NoneV
      [] fault.exc = "DuplicateKeyError" ->
             Error("NotUniqueError", "Update failed", fault.msg)
      [] OTHER ->
             IF fault.msg = "multi not coded yet"
             THEN Error("OperationError", "update() method requires MongoDB 1.1.3+",
                        NoneV)
             ELSE Error("OperationError", "Update failed", fault.msg)

\* The except clauses of modify().
ModifyError(fault) ==
    CASE fault.exc = NoneV -> NoneV
      [] fault.exc = "DuplicateKeyError" ->
             Error("NotUniqueError", "Update failed", fault.msg)
      [] OTHER -> Error("OperationError", "Update failed", fault.msg)

\* Django-style update keywords are <<operation, field, value>> triples, and
\* the update document transform.update makes of them is the set of
\* <<operator, field, value>> entries, one operator per operation.
Updates == { {}, {<<"set", "title", "t">>}, {<<"inc", "n", "1">>} }
TransformUpdate(update) ==
    { <<IF u[1] = "set" THEN "$set" ELSE "$inc", u[2], u[3]>> : u \in update }

HasSet(update) == \E u \in update : u[1] = "$set"

\* update["$set"]["_cls"] = name, or update["$set"] = {"_cls": name}
SetCls(update, name) ==
    IF HasSet(update)
    THEN {u \in update : ~(u[1] = "$set" /\ u[2] = "_cls")} \cup {<<"$set", "_cls", name>>}
    ELSE update \cup {<<"$set", "_cls", name>>}

\* '_cls' in query, for a compiled query
HasClsKey(query) == query.cls # AllCls

\* The documents of the collection a query matches: stored ones by id,
\* upserted ones as records of their name and _cls (NoneV when absent).
UpsertedMatches(u, query) ==
    /\ \A i \in 1..Len(query.crit) : u.name = query.crit[i]
    /\ IF u.cls = NoneV THEN query.cls.op \in {"all", "ne", "nin"}
       ELSE ClsMatch(u.cls, query.cls)

MatchCount(stored, ups, query) ==
    Cardinality({d \in stored : Matches(d, query)})
    + Cardinality({u \in ups : UpsertedMatches(u, query)})

\* The document an upsert inserts when nothing matches: the equalities of
\* the query and what the update sets.
UpsertDoc(query, update) ==
    [name |-> IF query.crit # <<>> THEN query.crit[1] ELSE NoneV,
     cls  |-> IF \E u \in update : u[1] = "$set" /\ u[2] = "_cls"
              THEN (CHOOSE u \in update : u[1] = "$set" /\ u[2] = "_cls")[3]
              ELSE NoneV]

\* update(upsert, multi, **update) on QuerySet s: the exception raised, the
\* calls made to the collection, the upserted documents afterwards and the
\* number returned.
UpdateOp(s, ref, ups, stored, upsert, multi, update, fault) ==
    IF update = {} /\ ~upsert
    THEN [err |-> Error("OperationError", "No update parameters, would remove data",
                        NoneV),
          sent |-> <<>>, upserted |-> ups, n |-> NoneN]
    ELSE LET queryset == Clone(s, ref)
             query == QueryOf(queryset)
             translated == TransformUpdate(update)
             final == IF upsert /\ HasClsKey(query)
                      THEN SetCls(translated, ClassName) ELSE translated
             matched == MatchCount(stored, ups, query)
             inserts == fault = NoFault /\ upsert /\ matched = 0
         IN [err |-> UpdateError(fault),
             sent |-> << [func |-> IF multi THEN "update_many" ELSE "update_one",
                          query |-> query, update |-> final, upsert |-> upsert] >>,
             upserted |-> IF inserts THEN ups \cup {UpsertDoc(query, final)} ELSE ups,
             n |-> IF fault # NoFault THEN NoneN
                   ELSE IF inserts THEN 1
                   ELSE IF multi \/ matched = 0 THEN matched ELSE 1]

UpdateOneOp(s, ref, ups, stored, upsert, update, fault) ==
    UpdateOp(s, ref, ups, stored, upsert, FALSE, update, fault)

\* modify() from the clone on: the command sent and its outcome.
ModifySend(s, ref, ups, stored, upsert, remove, new, update, fault) ==
    LET queryset == Clone(s, ref)
        query == QueryOf(queryset)
        translated == IF remove THEN update ELSE TransformUpdate(update)
        sort == IF queryset.ordering = <<>> THEN <<>> ELSE queryset.ordering[1]
        found == FindDocs(stored, query, sort, 0, 1)
        others == {u \in ups : UpsertedMatches(u, query)}
        ok == fault = NoFault
        inserts == ok /\ ~remove /\ upsert /\ found = <<>> /\ others = {}
    IN [err |-> ModifyError(fault),
        sent |-> << [func |-> IF remove THEN "find_one_and_delete"
                              ELSE "find_one_and_update",
                     query |-> query, update |-> translated, sort |-> sort,
                     upsert |-> ~remove /\ upsert] >>,
        upserted |-> IF inserts THEN ups \cup {UpsertDoc(query, translated)}
                     ELSE IF ok /\ remove /\ found = <<>> /\ others # {}
                     THEN ups \ {CHOOSE u \in others : TRUE}
                     ELSE ups,
        stored |-> IF ok /\ remove /\ found # <<>> THEN stored \ {found[1]}
                   ELSE stored,
        result |-> IF ~ok THEN NoneN
                   ELSE IF found # <<>> THEN found[1]
                   ELSE IF others # {} \/ (inserts /\ new) THEN 0
                   ELSE NoneN]

\* modify(upsert, remove, new, **update) on QuerySet s and the stored ids:
\* find_one_and_delete or find_one_and_update on the first match in the
\* QuerySet's ordering.  result is the id of the document returned, 0 for
\* an upserted one and NoneN for None.
ModifyOp(s, ref, ups, stored, upsert, remove, new, update, fault) ==
    IF remove /\ new
    THEN [err |-> Error("OperationError", "Conflicting parameters: remove and new",
                        NoneV),
          sent |-> <<>>, upserted |-> ups, stored |-> stored, result |-> NoneN]
    ELSE IF update = {} /\ ~upsert /\ ~remove
    THEN [err |-> Error("OperationError",
                        "No update parameters, must either update or remove", NoneV),
          sent |-> <<>>, upserted |-> ups, stored |-> stored, result |-> NoneN]
    ELSE ModifySend(s, ref, ups, stored, upsert, remove, new, update, fault)

\* The documents handed to insert(): "new" is an unsaved instance of the
\* QuerySet's document class, "saved" one that has a pk and was created,
\* "foreign" an instance of another class.
DocKinds == {"new", "saved", "foreign"}
MaxInsert == 2      \* documents in one insert() call

\* The ids the collection gives to k new documents: the smallest free ones.
RECURSIVE FreshIds(_, _)
FreshIds(stored, k) ==
    IF k = 0 \/ DocIds \ stored = {} THEN <<>>
    ELSE LET d == CHOOSE x \in DocIds \ stored : \A y \in DocIds \ stored : x <= y
         IN <<d>> \o FreshIds(stored \cup {d}, k - 1)

\* insert(doc_or_docs): docs is the list of documents, return_one whether
\* a single document was passed, done the number of documents the data
\* source wrote before fault stopped it.  ids are the pks assigned.
InsertOp(stored, docs, return_one, fault, done) ==
    IF \E i \in 1..Len(docs) : docs[i] = "foreign"
          /\ \A j \in 1..(i - 1) : docs[j] = "new"
    THEN [err |-> Error("OperationError",
                        "Some documents inserted aren't instances of Doc", NoneV),
          sent |-> <<>>, stored |-> stored, ids |-> <<>>]
    ELSE IF \E i \in 1..Len(docs) : docs[i] = "saved"
    THEN [err |-> Error("OperationError",
                        "Some documents have ObjectIds, use doc.update() instead",
                        NoneV),
          sent |-> <<>>, stored |-> stored, ids |-> <<>>]
    ELSE LET written == IF fault = NoFault THEN Len(docs) ELSE done
             ids == FreshIds(stored, written)
         IN [err |-> InsertError(fault),
             sent |-> << [func |-> IF return_one THEN "insert_one" ELSE "insert_many",
                          n |-> Len(docs)] >>,
             stored |-> stored \cup Range(ids),
             ids |-> IF fault = NoFault THEN ids ELSE <<>>]

\* A write on QuerySet q that raised err or returned value after the calls
\* sent to the collection.
Wrote(op, q, arg, r, value) ==
    last' = [NoLast EXCEPT !.op = op, !.q = q, !.arg = arg, !.calls = Len(r.sent),
                           !.items = r.sent, !.value = value, !.err = r.err]

Update ==
    \E q \in 1..nqs, upsert \in BOOLEAN, multi \in BOOLEAN, update \in Updates,
       fault \in {NoFault} \cup UpdateFaults :
        \E r \in {UpdateOp(qs[q], NewRef, upserted, coll, upsert, multi, update, fault)} :
            /\ Wrote("update", q, <<upsert, update, fault>>, r, r.n)
            /\ upserted' = r.upserted
            /\ UNCHANGED <<qs, caches, coll, writes, deleteVars, connectionVars, queryVars, iterVars, lk, graph, mem, db, dop>>

UpdateOne ==
    \E q \in 1..nqs, upsert \in BOOLEAN, update \in Updates,
       fault \in {NoFault} \cup UpdateFaults :
        \E r \in {UpdateOneOp(qs[q], NewRef, upserted, coll, upsert, update, fault)} :
            /\ Wrote("update_one", q, <<upsert, update, fault>>, r, r.n)
            /\ upserted' = r.upserted
            /\ UNCHANGED <<qs, caches, coll, writes, deleteVars, connectionVars, queryVars, iterVars, lk, graph, mem, db, dop>>

Modify ==
    \E q \in 1..nqs, upsert \in BOOLEAN, remove \in BOOLEAN, new \in BOOLEAN,
       update \in Updates, fault \in {NoFault} \cup ModifyFaults :
        \E r \in {ModifyOp(qs[q], NewRef, upserted, coll, upsert, remove, new,
                           update, fault)} :
            /\ Wrote("modify", q, <<upsert, update, fault, remove, new>>, r, r.result)
            /\ upserted' = r.upserted
            /\ coll' = r.stored
            /\ UNCHANGED <<qs, caches, writes, deleteVars, connectionVars, queryVars, iterVars, lk, graph, mem, db, dop>>

Insert ==
    \E q \in 1..nqs, n \in 1..MaxInsert, return_one \in BOOLEAN :
        \E docs \in [1..n -> DocKinds], done \in 0..(n - 1),
           fault \in {NoFault} \cup (IF return_one THEN InsertOneFaults
                                     ELSE InsertManyFaults) :
            /\ return_one => n = 1
            /\ fault.exc # "BulkWriteError" => done = 0
            /\ n <= Cardinality(DocIds \ coll)
            /\ \E r \in {InsertOp(coll, docs, return_one, fault, done)} :
                   /\ Wrote("insert", q, <<return_one, docs, fault>>, r, r.ids)
                   /\ coll' = r.stored
            /\ UNCHANGED <<qs, caches, writes, upserted, deleteVars, connectionVars, queryVars, iterVars, lk, graph, mem, db, dop>>

(***************************************************************************)
(* Field lookup.  The document class Post has the fields id (the primary   *)
(* key), title, address (an embedded Address), items (a list of embedded   *)
(* Item), tags (a list of strings) and author (a reference); an Address    *)
(* has a zipcode, an Item a name.  A dotted path is the sequence of its    *)
(* segments.  A field descriptor records its class (kind), its db_field,   *)
(* the embedded document class (type) and, for a list, the class of its    *)
(* element field (elem).  Nested lists are not modelled.                   *)
(***************************************************************************)
MaxPath == 3        \* segments of a field path

Descriptor(name, db_field, kind, type, elem) ==
    [name |-> name, db_field |-> db_field, kind |-> kind, type |-> type, elem |-> elem]

IdField == "id"     \* _meta['id_field'] of Post

Schema ==
    [ Post |-> { Descriptor("id", "_id", "objectid", NoneV, NoneV),
                 Descriptor("title", "t", "plain", NoneV, NoneV),
                 Descriptor("address", "addr", "embedded", "Address", NoneV),
                 Descriptor("items", "items", "list", "Item", "embedded"),
                 Descriptor("tags", "tags", "list", NoneV, "plain"),
                 Descriptor("author", "author", "reference", NoneV, NoneV) },
      Address |-> { Descriptor("zipcode", "zip", "plain", NoneV, NoneV) },
      Item |-> { Descriptor("name", "n", "plain", NoneV, NoneV) } ]

Segments == {"pk", "title", "address", "zipcode", "items", "name", "tags",
             "author", "0", "nosuch"}
Paths == UNION { [1..n -> Segments] : n \in 1..MaxPath }

\* cls._fields.get(name): no field (<<>>) or the field (<<field>>)
FieldOf(cls, name) ==
    IF \E f \in Schema[cls] : f.name = name
    THEN <<CHOOSE f \in Schema[cls] : f.name = name>> ELSE <<>>

IsDigit(segment) == segment \in {"0", "1"}

\* isinstance(field, ComplexBaseField)
IsComplex(field) == field.kind = "list"

\* A string in the list _lookup_field returns, written as a descriptor of
\* kind "str": it has no db_field.
Str(segment) == Descriptor(segment, NoneV, "str", NoneV, NoneV)

\* The field classes that have a lookup_member method: an embedded-document
\* field looks the name up in its document class, a list field asks its
\* element field.
HasLookupMember(kind) == kind \in {"embedded", "list"}

\* field.field.lookup_member(name) when the element field has the method,
\* else field.lookup_member(name): err is "AttributeError" when the call
\* ends on a field class without the method, new_field no field or the field.
LookupMember(field, member_name) ==
    LET target == IF field.kind = "list" THEN field.elem ELSE field.kind
    IN IF target = "embedded"
       THEN [err |-> NoneV, new_field |-> FieldOf(field.type, member_name)]
       ELSE [err |-> "AttributeError", new_field |-> <<>>]

\* _lookup_field(parts) from segment i on, field being the field the walk is
\* at (<<>> for None) and fields the list built so far.  The list holds
\* descriptors and, for the segments passed through, strings.
RECURSIVE LookupFrom(_, _, _, _)
LookupFrom(parts, i, field, fields) ==
    IF i > Len(parts) THEN [err |-> NoneV, fields |-> fields]
    ELSE LET field_name == parts[i]
             fail(e) == [err |-> e, fields |-> <<>>]
         IN IF IsDigit(field_name)
            THEN IF field = <<>> \/ ~IsComplex(field[1]) THEN fail("AttributeError")
                 ELSE LookupFrom(parts, i + 1, field, Append(fields, Str(field_name)))
            ELSE IF field = <<>>
            THEN LET first == FieldOf("Post", IF field_name = "pk" THEN IdField
                                              ELSE field_name)
                 IN IF first = <<>> THEN fail("LookUpError")
                    ELSE LookupFrom(parts, i + 1, first, Append(fields, first[1]))
            ELSE IF field[1].kind = "reference" THEN fail("LookUpError")
            ELSE LET member == LookupMember(field[1], field_name)
                     new_field == member.new_field
                 IN IF member.err # NoneV THEN fail(member.err)
                    ELSE IF new_field = <<>> /\ IsComplex(field[1])
                    THEN LookupFrom(parts, i + 1, field,
                                    Append(fields, Str(field_name)))
                    ELSE IF new_field = <<>> THEN fail("LookUpError")
                    ELSE LookupFrom(parts, i + 1, new_field,
                                    Append(fields, new_field[1]))

LookupField(parts) == LookupFrom(parts, 1, <<>>, <<>>)

\* [f.db_field for f in fields]: a string has no db_field
DbFields(fields) ==
    IF \E i \in 1..Len(fields) : fields[i].kind = "str"
    THEN [err |-> "AttributeError", path |-> <<>>]
    ELSE [err |-> NoneV, path |-> [i \in 1..Len(fields) |-> fields[i].db_field]]

\* _translate_field_name(field) and the loop body of _fields_to_dbfields
TranslateFieldName(parts) ==
    LET r == LookupField(parts)
    IN IF r.err # NoneV THEN [err |-> r.err, path |-> <<>>] ELSE DbFields(r.fields)

\* _fields_to_dbfields(fields): the translated paths, or the exception of
\* the first path that has one.
FieldsToDbFields(fields) ==
    LET bad == {i \in 1..Len(fields) : TranslateFieldName(fields[i]).err # NoneV}
    IN IF bad # {}
       THEN [err |-> TranslateFieldName(
                         fields[CHOOSE i \in bad : \A j \in bad : i <= j]).err,
             ret |-> <<>>]
       ELSE [err |-> NoneV,
             ret |-> [i \in 1..Len(fields) |-> TranslateFieldName(fields[i]).path]]

\* What a QuerySet method that translates field names does with its
\* argument: the exception it raises, the commands it sends to the
\* collection and the storage paths it uses.
Translated(err, sent, keys) == [err |-> err, sent |-> sent, keys |-> keys]

\* _get_order_by for one key: sign is "-", "+" or "" and path the rest.
GetOrderBy(sign, path) ==
    LET t == TranslateFieldName(path)
    IN Translated(NoneV, <<>>,
                  << <<IF t.err = NoneV THEN t.path ELSE path,
                       IF sign = "-" THEN 0 - 1 ELSE 1>> >>)

\* distinct(field): the try ... finally block.
DistinctOp(path) ==
    LET t == FieldsToDbFields(<<path>>)
        field == IF t.err = NoneV THEN t.ret[1] ELSE path
    IN Translated(NoneV, << <<"distinct", field>> >>, <<field>>)

\* only(), exclude() and fields(): the translation in fields().
ProjectOp(paths) ==
    LET t == FieldsToDbFields(paths)
    IN Translated(t.err, <<>>, t.ret)

\* sum(field) and average(field); operator is "$sum" or "$avg".
AggregateOp(operator, path) ==
    LET t == FieldsToDbFields(<<path>>)
    IN IF t.err # NoneV THEN Translated(t.err, <<>>, <<>>)
       ELSE Translated(NoneV, << <<"aggregate", operator, t.ret[1]>> >>, t.ret)

NoLookup(path) == [op |-> "init", path |-> path, r |-> Translated(NoneV, <<>>, <<>>)]

Looked(op, r) ==
    /\ lk' = [op |-> op, path |-> lk.path, r |-> r]
    /\ UNCHANGED <<cursorVars, deleteVars, connectionVars, queryVars, iterVars, upserted, graph, mem, db, dop>>

LookupFieldCall ==
    \E r \in {LookupField(lk.path)} :
        Looked("_lookup_field", Translated(r.err, <<>>, r.fields))

TranslateFieldNameCall ==
    \E r \in {TranslateFieldName(lk.path)} :
        Looked("_translate_field_name", Translated(r.err, <<>>, <<r.path>>))

Distinct == Looked("distinct", DistinctOp(lk.path))

OrderByKey ==
    \E sign \in {"", "+", "-"} : Looked("order_by", GetOrderBy(sign, lk.path))

Project ==
    \E method \in {"only", "exclude", "fields"} :
        Looked(method, ProjectOp(<<lk.path>>))

Sum == Looked("sum", AggregateOp("$sum", lk.path))

Average == Looked("average", AggregateOp("$avg", lk.path))

(***************************************************************************)
(* Change tracking over an object graph.  Object 1 is a Document, the      *)
(* other objects are embedded documents of one class, which declares an    *)
(* id field or not.  Every object has a field child (an embedded document  *)
(* or None, written 0) and a field items (a list of embedded documents);   *)
(* tracked says whether the object has a _changed_fields attribute and     *)
(* changed is that list.  A changed path is the sequence of its segments.  *)
(***************************************************************************)
NObjects == 3       \* objects of a graph: the Document and the embedded ones
Embedded == 2..NObjects

Object(tracked, changed, id, child, items) ==
    [tracked |-> tracked, changed |-> changed, id |-> id, child |-> child,
     items |-> items]

\* hasattr(o, 'id'), for object o of graph g
HasId(g, o) == o = 1 \/ g.embedded_has_id

IndexName(i) == <<"0", "1", "2", "3">>[i + 1]

\* ["%s%s" % (key, k) for k in changed if k]
Prefixed(key, changed) ==
    LET kept == SelectSeq(changed, LAMBDA k : k # <<>>)
    IN [i \in 1..Len(kept) |-> key \o kept[i]]

\* What a call of _get_changed_fields gives: the exception it ends with,
\* the paths it returns, the contents of the set `inspected` it worked on
\* and the objects the method was entered on, in order.
Collected(err, changed, inspected, calls) ==
    [err |-> err, changed |-> changed, inspected |-> inspected, calls |-> calls]

\* `inspected = inspected or set()`: an empty set handed over by the caller
\* is replaced by a new one, so the caller's set stays as it was.
AfterCall(before, r) == IF before = {} THEN before ELSE r.inspected

RECURSIVE GetChangedFields(_, _, _, _)
RECURSIVE ItemsLoop(_, _, _, _, _, _)

\* The loop over a list field from position i on; acc is what the caller
\* has collected so far.
ItemsLoop(g, o, i, acc, key, depth) ==
    IF i > Len(g.heap[o].items) \/ acc.err # NoneV THEN acc
    ELSE LET list_key == key \o <<IndexName(i - 1)>>
             r == GetChangedFields(g, g.heap[o].items[i], acc.inspected, depth + 1)
         IN ItemsLoop(g, o, i + 1,
                      Collected(r.err, acc.changed \o Prefixed(list_key, r.changed),
                                AfterCall(acc.inspected, r), acc.calls \o r.calls),
                      key, depth)

\* o._get_changed_fields(key, inspected) at nesting depth depth.
GetChangedFields(g, o, inspected, depth) ==
    LET self == g.heap[o]
        own == IF self.tracked THEN self.changed ELSE <<>>
    IN IF depth > MaxDepth THEN Collected("RecursionError", <<>>, inspected, <<>>)
       ELSE IF HasId(g, o) /\ self.id \in inspected
       THEN Collected(NoneV, own, inspected, <<o>>)
       ELSE LET mine == IF HasId(g, o) THEN inspected \cup {self.id} ELSE inspected
                c == self.child
                seen == c # 0 /\ HasId(g, c) /\ g.heap[c].id \in mine
                at_child == IF c # 0 /\ HasId(g, c) THEN mine \cup {g.heap[c].id}
                            ELSE mine
                descend == c # 0 /\ ~seen /\ \A i \in 1..Len(own) : own[i] # <<"child">>
                r == IF descend THEN GetChangedFields(g, c, at_child, depth + 1)
                     ELSE Collected(NoneV, <<>>, at_child, <<>>)
                after_child ==
                    Collected(r.err, own \o Prefixed(<<"child">>, r.changed),
                              IF descend THEN AfterCall(at_child, r) ELSE at_child,
                              <<o>> \o r.calls)
            IN IF \E i \in 1..Len(own) : own[i] = <<"items">> THEN after_child
               ELSE ItemsLoop(g, o, 1, after_child, <<"items">>, depth)

NoCollected == Collected(NoneV, <<>>, {}, <<>>)

\* The graphs the change tracker is run on: every embedded document may
\* hold any embedded document, itself included, as its child or in its
\* list; ids are None (NoneN) or 5, the Document's id is 7.
ChangeLists == {<<>>, << <<"name">> >>, << <<"child">> >>}
EmbeddedObjects(has_id) ==
    { Object(changed # <<>>, changed, id, child, items) :
        changed \in ChangeLists, id \in (IF has_id THEN {NoneN, 5} ELSE {NoneN}),
        child \in {0} \cup Embedded,
        items \in {<<>>} \cup {<<e>> : e \in Embedded} }
Documents ==
    { Object(FALSE, <<>>, 7, child, items) :
        child \in {0} \cup Embedded, items \in {<<>>, <<2>>, <<2, 3>>} }
Graphs(has_id) ==
    { [embedded_has_id |-> has_id, heap |-> <<d>> \o e] :
        d \in Documents, e \in [1..(NObjects - 1) -> EmbeddedObjects(has_id)] }

(***************************************************************************)
(* A stored document and its instance.  Person has the fields name (no     *)
(* default), count (a number; its default is a callable that returns 0),   *)
(* tags (a list; its default is a callable that returns the empty list)    *)
(* and child, an embedded Address with the field zipcode (no default).     *)
(* Values are written as strings: NoneV, "" and "x" for name, "0" and "1"  *)
(* for count, "[]" and "[t]" for tags, NoneV and "z" for zipcode; the      *)
(* stored form of an Address is "{}" or "{z}".  In the stored document     *)
(* NoneV stands for a missing key.  In a graph the Person is object 1 and  *)
(* its Address object 2.                                                   *)
(***************************************************************************)
RootFields == <<"name", "count", "tags", "child">>
FieldValues ==
    [name |-> {NoneV, "", "x"}, count |-> {"0", "1"}, tags |-> {"[]", "[t]"},
     zipcode |-> {NoneV, "z"}]

\* field.default: a value, or a callable (written "<function>") with the
\* value it returns
Defaults ==
    [name    |-> [value |-> NoneV, returns |-> NoneV],
     count   |-> [value |-> "<function>", returns |-> "0"],
     tags    |-> [value |-> "<function>", returns |-> "[]"],
     child   |-> [value |-> NoneV, returns |-> NoneV],
     zipcode |-> [value |-> NoneV, returns |-> NoneV]]

\* callable(default)
Callable(default) == default.value = "<function>"

\* `if callable(default): default = default()`
\* A default that is compared as it was declared.
ResolveDefaultUncalled(default) == default.value

ResolveDefault(default) == IF Callable(default) THEN default.returns ELSE default.value

\* bool(value) and isinstance(value, (numbers.Number, bool))
Falsy(value) == value \in {NoneV, "", "0", "[]", "{}"}
IsNumber(value) == value \in {"0", "1"}

\* The stored form of the embedded Address (its to_mongo) and back.
ChildSon(child) == IF child.zipcode = NoneV THEN "{}" ELSE "{z}"
ChildOf(son) == [zipcode |-> IF son = "{z}" THEN "z" ELSE NoneV]

\* _full_delta()[0]: the fields whose stored form is not None.
FullSets(m) ==
    [name |-> m.root.name, count |-> m.root.count, tags |-> m.root.tags,
     child |-> ChildSon(m.child)]

\* The walk of _delta along a changed path in doc: d.get(p) per segment.
Walk(doc, path) ==
    IF Len(path) = 1
    THEN IF path[1] \in DOMAIN doc THEN doc[path[1]] ELSE NoneV
    ELSE IF path[1] = "child" /\ doc.child # NoneV /\ path[2] = "zipcode"
    THEN ChildOf(doc.child).zipcode
    ELSE NoneV

\* The default _delta finds for a path: of the field of the document, or of
\* the field of the embedded document the path leads to; None when there
\* is no such field.
DefaultOf(path) ==
    LET name == path[Len(path)]
        known == IF Len(path) = 1 THEN name \in Range(RootFields)
                 ELSE path[1] = "child" /\ name = "zipcode"
    IN IF known THEN Defaults[name] ELSE [value |-> NoneV, returns |-> NoneV]

\* _delta(): the (set, unset) pair; set holds <<path, value>> entries.  A
\* document without a _changed_fields attribute gives its whole stored
\* form, the id left out.
Delta(g, m) ==
    LET doc == FullSets(m)
        set_fields == GetChangedFields(g, 1, {}, 0).changed
        paths == IF g.heap[1].tracked THEN Range(set_fields)
                 ELSE {<<f>> : f \in {n \in Range(RootFields) : doc[n] # NoneV}}
        unset == {path \in paths :
                    /\ Falsy(Walk(doc, path)) /\ ~IsNumber(Walk(doc, path))
                    /\ ResolveDefault(DefaultOf(path)) = Walk(doc, path)}
    IN [set |-> {<<path, Walk(doc, path)>> : path \in paths \ unset}, unset |-> unset]

\* _mark_as_changed(key) on an object of the heap.
MarkAsChangedOp(obj, key) ==
    IF key = <<>> THEN obj
    ELSE IF obj.tracked /\ \A i \in 1..Len(obj.changed) : obj.changed[i] # key
    THEN [obj EXCEPT !.changed = Append(@, key)]
    ELSE obj

RECURSIVE ClearChangedFields(_, _, _)
RECURSIVE ClearItems(_, _, _, _)

\* The loop of _clear_changed_fields over the list field of o from i on.
ClearItems(r, o, i, depth) ==
    IF i > Len(r.heap[o].items) \/ r.err # NoneV THEN r
    ELSE ClearItems(ClearChangedFields(r.heap, r.heap[o].items[i], depth + 1),
                    o, i + 1, depth)

\* o._clear_changed_fields() on heap h: the exception and the heap after.
ClearChangedFields(h, o, depth) ==
    IF depth > MaxDepth THEN [err |-> "RecursionError", heap |-> h]
    ELSE LET cleared == [h EXCEPT ![o].tracked = TRUE, ![o].changed = <<>>]
             r == ClearItems([err |-> NoneV, heap |-> cleared], o, 1, depth)
         IN IF r.err # NoneV \/ h[o].child = 0 THEN r
            ELSE ClearChangedFields(r.heap, h[o].child, depth + 1)

\* BaseField.from_python: an assigned None becomes the default.
FromPython(name, value) ==
    IF value = NoneV THEN ResolveDefault(Defaults[name]) ELSE value

\* The stored document: exists, and the stored form of each field.
StoredDoc(exists, name, count, tags, child) ==
    [exists |-> exists, name |-> name, count |-> count, tags |-> tags,
     child |-> child]

\* collection.update(key, {'$set': sets, '$unset': unsets}) without the
\* $unset part.
ApplyUpdateSetOnly(stored, sets, unsets) ==
    LET value(f) == IF \E e \in sets : e[1] = <<f>>
                    THEN (CHOOSE e \in sets : e[1] = <<f>>)[2] ELSE stored[f]
        zip == IF \E e \in sets : e[1] = <<"child", "zipcode">>
               THEN (CHOOSE e \in sets : e[1] = <<"child", "zipcode">>)[2]
               ELSE ChildOf(value("child")).zipcode
    IN StoredDoc(stored.exists, value("name"), value("count"), value("tags"),
                 IF value("child") = NoneV /\ zip = NoneV THEN NoneV
                 ELSE ChildSon([zipcode |-> zip]))

\* collection.update(key, {'$set': sets, '$unset': unsets}) on the stored
\* document.
ApplyUpdate(stored, sets, unsets) ==
    LET value(f) == IF <<f>> \in unsets THEN NoneV
                    ELSE IF \E e \in sets : e[1] = <<f>>
                    THEN (CHOOSE e \in sets : e[1] = <<f>>)[2] ELSE stored[f]
        zip == IF <<"child", "zipcode">> \in unsets THEN NoneV
               ELSE IF \E e \in sets : e[1] = <<"child", "zipcode">>
               THEN (CHOOSE e \in sets : e[1] = <<"child", "zipcode">>)[2]
               ELSE ChildOf(value("child")).zipcode
    IN StoredDoc(stored.exists, value("name"), value("count"), value("tags"),
                 IF value("child") = NoneV /\ zip = NoneV THEN NoneV
                 ELSE ChildSon([zipcode |-> zip]))

\* The instance: whether it was created and the values its attributes give.
Instance(created, name, count, tags, zipcode) ==
    [created |-> created,
     root |-> [name |-> name, count |-> count, tags |-> tags],
     child |-> [zipcode |-> zipcode]]

\* The attribute values of an instance whose data is the stored document:
\* a missing key gives the default.
ReadStored(stored) ==
    Instance(TRUE, FromPython("name", stored.name), FromPython("count", stored.count),
             FromPython("tags", stored.tags), ChildOf(stored.child).zipcode)

\* A new embedded document, as made from stored data.
FreshEmbedded == Object(FALSE, <<>>, NoneN, 0, <<>>)

\* The except clause of save().
SaveError(fault) ==
    IF IsDuplicateKeyMessage(fault.msg)
    THEN Error("NotUniqueError", "Tried to save duplicate unique keys", fault.msg)
    ELSE Error("OperationError", "Could not save document", fault.msg)

SaveFaults ==
    { Fault("OperationFailure", DupMessage, TRUE),
      Fault("OperationFailure", "not master", FALSE) }

\* save(): fault is the answer of the data source to the write.  The result
\* is the class of the exception raised and the exception, the write sent,
\* the instance and the stored document afterwards.
SaveOp(g, m, stored, fault) ==
    LET delta == Delta(g, m)
        update == [set |-> {e \in delta.set : e[1] # <<"_id">>}, unset |-> delta.unset]
        sends == ~m.created \/ update.set # {} \/ update.unset # {}
        failed == sends /\ fault # NoFault
    IN [err |-> IF failed THEN SaveError(fault).type ELSE NoneV,
        raised |-> IF failed THEN <<SaveError(fault)>> ELSE <<>>,
        sent |-> IF ~sends THEN <<>>
                 ELSE IF m.created THEN << [func |-> "update", update |-> update] >>
                 ELSE << [func |-> "insert", update |-> [set |-> {}, unset |-> {}]] >>,
        mem |-> IF failed THEN m ELSE [m EXCEPT !.created = TRUE],
        stored |-> IF failed \/ ~sends THEN stored
                   ELSE IF m.created
                   THEN IF stored.exists
                        THEN ApplyUpdate(stored, update.set, update.unset) ELSE stored
                   ELSE StoredDoc(TRUE, FullSets(m).name, FullSets(m).count,
                                  FullSets(m).tags, FullSets(m).child)]

\* reload(): the exception raised, the instance and the heap afterwards
\* (the action also records the operation that came before).
\* The embedded document is made anew from the stored data.
ReloadOp(g, m, stored) ==
    IF ~stored.exists
    THEN [err |-> "DoesNotExist", mem |-> m, heap |-> g.heap]
    ELSE [err |-> NoneV, mem |-> ReadStored(stored),
          heap |-> [g.heap EXCEPT ![2] = FreshEmbedded]]

\* Person._from_son(son): a new instance of the stored document.
FromSonOp(g, stored) ==
    [mem |-> ReadStored(stored),
     heap |-> [g.heap EXCEPT ![1] = Object(FALSE, <<>>, 7, 2, <<>>),
                             ![2] = FreshEmbedded]]

MaxDocOps == 4      \* operations on the document instance

\* The graph of a Person with its Address.
PersonGraph ==
    [embedded_has_id |-> FALSE,
     heap |-> [o \in 1..NObjects |-> IF o = 1 THEN Object(FALSE, <<>>, 7, 2, <<>>)
                                     ELSE FreshEmbedded]]

SavedPerson == StoredDoc(TRUE, "x", "1", "[t]", "{z}")
NoPerson == StoredDoc(FALSE, NoneV, NoneV, NoneV, NoneV)

NoDocOp == [op |-> "init", arg |-> <<>>, err |-> NoneV, out |-> <<>>, n |-> 0]

\* An operation on the instance that counts against MaxDocOps.
DocOp(op, arg, err, out) ==
    /\ dop.n < MaxDocOps
    /\ dop' = [op |-> op, arg |-> arg, err |-> err, out |-> out, n |-> dop.n + 1]
    /\ UNCHANGED <<cursorVars, deleteVars, connectionVars, queryVars, iterVars, upserted, lk>>

GetChangedFieldsCall ==
    \E o \in 1..NObjects :
        \E r \in {GetChangedFields(graph, o, {}, 0)} :
            /\ dop' = [dop EXCEPT !.op = "_get_changed_fields", !.arg = <<o>>,
                                  !.err = r.err, !.out = <<r>>]
            /\ UNCHANGED <<cursorVars, deleteVars, connectionVars, queryVars, iterVars, upserted, lk, graph, mem, db>>

DeltaCall ==
    /\ dop' = [dop EXCEPT !.op = "_delta", !.arg = <<>>, !.err = NoneV,
                          !.out = <<Delta(graph, mem)>>]
    /\ UNCHANGED <<cursorVars, deleteVars, connectionVars, queryVars, iterVars, upserted, lk, graph, mem, db>>

\* The keys an object is marked with: its field names.
KeysOf(o) == IF o = 1 THEN {<<f>> : f \in Range(RootFields)} ELSE {<<"zipcode">>}

MarkAsChanged ==
    \E o \in {1, 2} : \E key \in KeysOf(o) \cup {<<>>} :
        /\ DocOp("_mark_as_changed", <<o, key>>, NoneV, <<>>)
        /\ graph' = [graph EXCEPT !.heap[o] = MarkAsChangedOp(@, key)]
        /\ UNCHANGED <<mem, db>>

ClearChangedFieldsCall ==
    \E o \in {1, 2} :
        \E r \in {ClearChangedFields(graph.heap, o, 0)} :
            /\ DocOp("_clear_changed_fields", <<o>>, r.err, <<>>)
            /\ graph' = [graph EXCEPT !.heap = r.heap]
            /\ UNCHANGED <<mem, db>>

\* instance.name = value, and the same for the other fields; an assignment
\* marks the field as changed on its object.
Assign ==
    \E name \in DOMAIN FieldValues :
        \E value \in FieldValues[name] \cup {NoneV} :
            LET o == IF name = "zipcode" THEN 2 ELSE 1
            IN /\ DocOp("assign", <<name, value>>, NoneV, <<>>)
               /\ mem' = IF o = 1
                         THEN [mem EXCEPT !.root[name] = FromPython(name, value)]
                         ELSE [mem EXCEPT !.child[name] = FromPython(name, value)]
               /\ graph' = [graph EXCEPT !.heap[o] = MarkAsChangedOp(@, <<name>>)]
               /\ UNCHANGED db

Save ==
    \E fault \in {NoFault} \cup SaveFaults :
        \E r \in {SaveOp(graph, mem, db, fault)} :
            /\ DocOp("save", <<fault>>, r.err,
                     <<[sent |-> r.sent, raised |-> r.raised, mem |-> mem,
                        changed |-> GetChangedFields(graph, 1, {}, 0).changed]>>)
            /\ mem' = r.mem
            /\ db' = r.stored
            /\ UNCHANGED graph

Reload ==
    \E r \in {ReloadOp(graph, mem, db)} :
        /\ DocOp("reload", <<>>, r.err,
                 <<[op |-> dop.op, err |-> dop.err,
                    out |-> IF dop.op = "save" THEN dop.out ELSE <<>>]>>)
        /\ mem' = r.mem
        /\ graph' = [graph EXCEPT !.heap = r.heap]
        /\ UNCHANGED db

FromSon ==
    /\ db.exists
    /\ \E r \in {FromSonOp(graph, db)} :
           /\ DocOp("_from_son", <<>>, NoneV, <<>>)
           /\ mem' = r.mem
           /\ graph' = [graph EXCEPT !.heap = r.heap]
           /\ UNCHANGED db

\* The Person as it was loaded, and no operation on it yet.
LoadedPerson ==
    /\ graph = PersonGraph
    /\ mem = ReadStored(SavedPerson)
    /\ db = SavedPerson
    /\ dop = NoDocOp

\* No document was upserted yet and no path was looked up.
NoDocument ==
    /\ upserted = {}
    /\ lk = NoLookup(<<"title">>)
    /\ LoadedPerson

(***************************************************************************)
(* The connection module: the registries _connection_settings,            *)
(* _connections and _dbs, keyed by alias.  An entry is a sequence of       *)
(* length 0 (the alias is not in the dict) or 1.  A client is known by the *)
(* number it was made with, a database by its name and its client.         *)
(***************************************************************************)
MaxConnOps == 4     \* calls of the connection module

DEFAULT_CONNECTION_NAME == "default"
Aliases == {DEFAULT_CONNECTION_NAME, "testdb"}
DbNames == {"mongoenginetest", "mongoenginetest2"}
\* A plain host, a URI that names a database and a URI that names none.
Hosts == {"localhost", "mongodb://h/uridb", "mongodb://h"}

\* "://" in host, and uri_parser.parse_uri(host).get('database')
IsUri(host) == host # "localhost"
UriDatabase(host) == IF host = "mongodb://h/uridb" THEN "uridb" ELSE NoneV

\* The registries as one value.
Registry(settings, conns, databases, made) ==
    [settings |-> settings, connections |-> conns, dbs |-> databases, clients |-> made]

Registries == Registry(connection_settings, connections, dbs, clients)

\* register_connection(alias, name, host)
RegisterConnectionOp(reg, alias, name, host) ==
    IF IsUri(host) /\ UriDatabase(host) = NoneV
    THEN [err |-> "ConnectionError", reg |-> reg]
    ELSE [err |-> NoneV,
          reg |-> [reg EXCEPT !.settings[alias] =
                      <<[name |-> IF IsUri(host) THEN UriDatabase(host) ELSE name,
                         host |-> host]>>]]

\* disconnect(alias): the client is closed and both entries are deleted.
DisconnectOp(reg, alias) ==
    LET closed == IF reg.connections[alias] # <<>>
                  THEN [reg EXCEPT !.clients.closed = @ \cup {reg.connections[alias][1]},
                                   !.connections[alias] = <<>>]
                  ELSE reg
    IN [closed EXCEPT !.dbs[alias] = <<>>]

\* A get_connection that puts the client into _connections before
\* MongoClient(...) has returned.
GetConnectionOpEager(reg, alias, reconnect, fails) ==
    LET r == IF reconnect THEN DisconnectOp(reg, alias) ELSE reg
        made == [r EXCEPT !.connections[alias] = <<r.clients.made + 1>>,
                          !.clients.made = @ + 1]
    IN IF r.connections[alias] # <<>>
       THEN [err |-> NoneV, reg |-> r, conn |-> r.connections[alias][1]]
       ELSE IF r.settings[alias] = <<>>
       THEN [err |-> "ConnectionError", reg |-> r, conn |-> 0]
       ELSE IF fails THEN [err |-> "ConnectionError", reg |-> made, conn |-> 0]
       ELSE [err |-> NoneV, reg |-> made, conn |-> r.clients.made + 1]

\* get_connection(alias, reconnect); fails says whether MongoClient(...)
\* raises.  conn is the client returned, 0 when the call raises.
GetConnectionOp(reg, alias, reconnect, fails) ==
    LET r == IF reconnect THEN DisconnectOp(reg, alias) ELSE reg
    IN IF r.connections[alias] # <<>>
       THEN [err |-> NoneV, reg |-> r, conn |-> r.connections[alias][1]]
       ELSE IF r.settings[alias] = <<>> \/ fails
       THEN [err |-> "ConnectionError", reg |-> r, conn |-> 0]
       ELSE [err |-> NoneV,
             reg |-> [r EXCEPT !.connections[alias] = <<r.clients.made + 1>>,
                               !.clients.made = @ + 1],
             conn |-> r.clients.made + 1]

\* get_db(alias, reconnect): db is <<[name, client]>>, empty when the call
\* raises.
GetDbOp(reg, alias, reconnect, fails) ==
    LET r == IF reconnect THEN DisconnectOp(reg, alias) ELSE reg
    IN IF r.dbs[alias] # <<>>
       THEN [err |-> NoneV, reg |-> r, db |-> r.dbs[alias]]
       ELSE LET c == GetConnectionOp(r, alias, FALSE, fails)
                made == <<[name |-> c.reg.settings[alias][1].name, client |-> c.conn]>>
            IN IF c.err # NoneV THEN [err |-> c.err, reg |-> c.reg, db |-> <<>>]
               ELSE [err |-> NoneV, reg |-> [c.reg EXCEPT !.dbs[alias] = made],
                     db |-> made]

\* connect(db, alias, host=host)
ConnectOp(reg, name, alias, host, fails) ==
    LET r == IF reg.connections[alias] = <<>>
             THEN RegisterConnectionOp(reg, alias, name, host)
             ELSE [err |-> NoneV, reg |-> reg]
    IN IF r.err # NoneV THEN [err |-> r.err, reg |-> r.reg, conn |-> 0]
       ELSE GetConnectionOp(r.reg, alias, FALSE, fails)

NoConnLast ==
    [op |-> "init", alias |-> NoneV, name |-> NoneV, reconnect |-> FALSE,
     err |-> NoneV, conn |-> 0, db |-> <<>>, n |-> 0]

\* The registries are empty and no client was made.
NoConnection ==
    /\ connection_settings = [a \in Aliases |-> <<>>]
    /\ connections = [a \in Aliases |-> <<>>]
    /\ dbs = [a \in Aliases |-> <<>>]
    /\ clients = [made |-> 0, closed |-> {}]
    /\ clast = NoConnLast

\* A call of the connection module that leaves the registries as reg.
Connected(op, alias, name, reconnect, err, conn, database, reg) ==
    /\ clast.n < MaxConnOps
    /\ clast' = [op |-> op, alias |-> alias, name |-> name, reconnect |-> reconnect,
                 err |-> err, conn |-> conn, db |-> database, n |-> clast.n + 1]
    /\ connection_settings' = reg.settings
    /\ connections' = reg.connections
    /\ dbs' = reg.dbs
    /\ clients' = reg.clients
    /\ UNCHANGED <<cursorVars, deleteVars, documentVars, queryVars, iterVars>>

\* Whether MongoClient(...) may raise matters only when a client is made.
MakesClient(reg, alias, reconnect) ==
    (reconnect \/ reg.connections[alias] = <<>>) /\ reg.settings[alias] # <<>>

RegisterConnection ==
    \E alias \in Aliases, name \in DbNames, host \in Hosts :
        \E r \in {RegisterConnectionOp(Registries, alias, name, host)} :
            Connected("register_connection", alias, name, FALSE, r.err, 0, <<>>, r.reg)

Disconnect ==
    \E alias \in Aliases :
        Connected("disconnect", alias, NoneV, FALSE, NoneV, 0, <<>>,
                  DisconnectOp(Registries, alias))

GetConnection ==
    \E alias \in Aliases, reconnect \in BOOLEAN :
        \E fails \in IF MakesClient(Registries, alias, reconnect) THEN BOOLEAN ELSE {FALSE} :
            \E r \in {GetConnectionOp(Registries, alias, reconnect, fails)} :
                Connected("get_connection", alias, NoneV, reconnect, r.err, r.conn, <<>>, r.reg)

GetDb ==
    \E alias \in Aliases, reconnect \in BOOLEAN :
        \E fails \in IF MakesClient(Registries, alias, reconnect) THEN BOOLEAN ELSE {FALSE} :
            \E r \in {GetDbOp(Registries, alias, reconnect, fails)} :
                Connected("get_db", alias, NoneV, reconnect, r.err, 0, r.db, r.reg)

Connect ==
    \E alias \in Aliases, name \in DbNames, host \in Hosts, fails \in BOOLEAN :
        /\ fails => connections[alias] = <<>> /\ ~(IsUri(host) /\ UriDatabase(host) = NoneV)
        /\ \E r \in {ConnectOp(Registries, name, alias, host, fails)} :
               Connected("connect", alias, name, FALSE, r.err, r.conn, <<>>, r.reg)

(***************************************************************************)
(* The second half of the _query property.  A query dict is [parent, and]: *)
(* the mapping of its keys other than $and, and the list under $and, empty *)
(* when the dict has no $and.  A mapping is a function from keys to        *)
(* conditions.                                                             *)
(***************************************************************************)
MaxChildren == 2    \* mappings under $and
MaxReads == 2       \* reads of the _query property

QueryKeys == {"name", "n", "$or"}
Conditions ==
    [k \in QueryKeys |->
        CASE k = "name" -> {"a", "b"}
          [] k = "n" -> {"1"}
          [] OTHER -> {"name=b|n=2"}]
Mappings ==
    UNION {[K -> UNION {Conditions[k] : k \in K}] : K \in SUBSET QueryKeys}
WellFormed(mapping) == \A k \in DOMAIN mapping : mapping[k] \in Conditions[k]

RECURSIVE ChildLists(_)
ChildLists(n) ==
    IF n = 0 THEN {<<>>}
    ELSE ChildLists(n - 1) \cup
         {Append(l, c) : l \in {x \in ChildLists(n - 1) : Len(x) = n - 1},
                         c \in {x \in Mappings : DOMAIN x # {} /\ WellFormed(x)}}

Queries ==
    {[parent |-> p, and |-> l] :
        p \in {x \in Mappings : WellFormed(x)}, l \in ChildLists(MaxChildren)}

\* dict.update: the entries of other replace those of mapping.
DictUpdate(mapping, other) ==
    [k \in DOMAIN mapping \cup DOMAIN other |->
        IF k \in DOMAIN other THEN other[k] ELSE mapping[k]]

RECURSIVE UpdateAll(_, _)
UpdateAll(mapping, children) ==
    IF children = <<>> THEN mapping
    ELSE UpdateAll(DictUpdate(mapping, Head(children)), Tail(children))

RECURSIVE ChildrenKeys(_)
\* The number of entries of children_keys, a list.
ChildrenKeys(children) ==
    IF children = <<>> THEN 0
    ELSE Cardinality(DOMAIN Head(children)) + ChildrenKeys(Tail(children))

\* len(parent_keys_set | set(children_keys)) == len(list(parent_keys_set) + children_keys)
NoCollision(query) ==
    Cardinality(DOMAIN query.parent \cup UNION {DOMAIN query.and[i] : i \in 1..Len(query.and)})
        = Cardinality(DOMAIN query.parent) + ChildrenKeys(query.and)

\* A simplification that merges the children whatever their keys.
QueryOpAlways(query) ==
    [parent |-> UpdateAll(query.parent, query.and), and |-> <<>>]

\* The simplification of _query: the dict afterwards, which is returned.
QueryOp(query) ==
    IF query.and # <<>> /\ NoCollision(query)
    THEN [parent |-> UpdateAll(query.parent, query.and), and |-> <<>>]
    ELSE query

\* A read of the _query property.
QueryRead ==
    /\ Len(returned) < MaxReads
    /\ mongo_query' = QueryOp(mongo_query)
    /\ returned' = Append(returned, QueryOp(mongo_query))
    /\ UNCHANGED <<compiled, cursorVars, deleteVars, documentVars, connectionVars, iterVars>>

\* The query of the QuerySet before its _query is read.
NoQuery ==
    /\ compiled = [parent |-> <<>>, and |-> <<>>]
    /\ mongo_query = compiled
    /\ returned = <<>>

(***************************************************************************)
(* Specifications.                                                         *)
(***************************************************************************)
Init ==
    /\ qs = <<InitQuerySet(1)>>
    /\ caches = << <<>> >>
    /\ coll \in {DocIds, DocIds \ {NDocs}}
    /\ writes = 0
    /\ last = NoLast
    /\ store = Fixture(1, {}, 0)
    /\ rules = [c \in Classes |-> <<>>]
    /\ NoHierarchy
    /\ observers = "none"
    /\ dlast = NoDelete(store)
    /\ NoConnection
    /\ iters = <<>>
    /\ NoQuery
    /\ NoDocument

ChainOps ==
    {"call", "all", "filter", "limit", "skip", "hint", "batch_size", "order_by",
     "only", "exclude", "fields", "all_fields", "none", "no_sub_classes",
     "only_classes", "exclude_classes", "clear_cls_query", "timeout",
     "read_preference", "read_concern", "scalar", "as_pymongo", "no_dereference",
     "getitem"}

\* The whole model: every operation on every QuerySet.
Next ==
    \/ Call
    \/ All
    \/ Filter
    \/ Limit
    \/ Skip
    \/ Hint
    \/ BatchSize
    \/ OrderBy
    \/ Only
    \/ Exclude
    \/ Fields
    \/ AllFields
    \/ NoneQS
    \/ NoSubClasses
    \/ OnlyClasses
    \/ ExcludeClasses
    \/ ClearClsQuery
    \/ Timeout
    \/ ReadPreference
    \/ ReadConcern
    \/ Scalar
    \/ AsPymongo
    \/ NoDereference
    \/ GetItemSlice
    \/ \E q \in 1..nqs : Iterate(q)
    \/ \E q \in 1..nqs : LenQS(q)
    \/ \E q \in 1..nqs : Count(q)
    \/ \E q \in 1..nqs : Rewind(q)
    \/ \E q \in 1..nqs : Repr(q)
    \/ \E q \in 1..nqs : Get(q)
    \/ \E q \in 1..nqs : First(q)
    \/ Write
    \/ RegisterDeleteRule
    \/ Delete
    \/ DeleteDocument
    \/ Update
    \/ UpdateOne
    \/ Modify
    \/ Insert
    \/ LookupFieldCall
    \/ TranslateFieldNameCall
    \/ Distinct
    \/ OrderByKey
    \/ Project
    \/ Sum
    \/ Average
    \/ GetChangedFieldsCall
    \/ DeltaCall
    \/ MarkAsChanged
    \/ ClearChangedFieldsCall
    \/ Assign
    \/ Save
    \/ Reload
    \/ FromSon
    \/ RegisterConnection
    \/ Disconnect
    \/ GetConnection
    \/ GetDb
    \/ Connect
    \/ QueryRead
    \/ \E q \in 1..nqs : OpenIter(q)
    \/ \E i \in 1..MaxIters : NextItem(i)

Spec == Init /\ [][Next]_vars

\* Deletes: the classes are declared with their rules, the receivers are
\* connected, then the application deletes.
InitDelete ==
    /\ qs = <<InitQuerySet(1)>>
    /\ caches = << <<>> >>
    /\ coll = DocIds
    /\ writes = 0
    /\ last = NoLast
    /\ store \in Fixtures
    /\ rules = [c \in Classes |-> <<>>]
    /\ NoHierarchy
    /\ observers \in {"none", "Author", "any"}
    /\ dlast = NoDelete(store)
    /\ NoConnection
    /\ iters = <<>>
    /\ NoQuery
    /\ NoDocument

NextDelete ==
    \/ RegisterDeleteRule
    \/ Delete
    \/ DeleteDocument

SpecDelete == InitDelete /\ [][NextDelete]_vars

\* Chains of calls, with len() on any QuerySet before the last call.
MoreQS == nqs < MaxQS

NextChain ==
    \/ MoreQS /\ Call
    \/ MoreQS /\ All
    \/ MoreQS /\ Filter
    \/ MoreQS /\ Limit
    \/ MoreQS /\ Skip
    \/ MoreQS /\ Hint
    \/ MoreQS /\ BatchSize
    \/ MoreQS /\ OrderBy
    \/ MoreQS /\ Only
    \/ MoreQS /\ Exclude
    \/ MoreQS /\ Fields
    \/ MoreQS /\ AllFields
    \/ MoreQS /\ NoneQS
    \/ MoreQS /\ NoSubClasses
    \/ MoreQS /\ OnlyClasses
    \/ MoreQS /\ ExcludeClasses
    \/ MoreQS /\ ClearClsQuery
    \/ MoreQS /\ Timeout
    \/ MoreQS /\ ReadPreference
    \/ MoreQS /\ ReadConcern
    \/ MoreQS /\ Scalar
    \/ MoreQS /\ AsPymongo
    \/ MoreQS /\ NoDereference
    \/ MoreQS /\ GetItemSlice
    \/ MoreQS /\ \E q \in 1..nqs : LenQS(q)

SpecChain == Init /\ [][NextChain]_vars

\* Chain calls first, then evaluation of the QuerySet they returned while
\* another client writes.
ChainPhase == nqs < MaxEvalQS /\ last.op \in {"init"} \cup ChainOps

NextEval ==
    \/ ChainPhase /\ Call
    \/ ChainPhase /\ All
    \/ ChainPhase /\ Filter
    \/ ChainPhase /\ Limit
    \/ ChainPhase /\ Skip
    \/ ChainPhase /\ Hint
    \/ ChainPhase /\ BatchSize
    \/ ChainPhase /\ OrderBy
    \/ ChainPhase /\ Only
    \/ ChainPhase /\ Exclude
    \/ ChainPhase /\ Fields
    \/ ChainPhase /\ AllFields
    \/ ChainPhase /\ NoneQS
    \/ ChainPhase /\ NoSubClasses
    \/ ChainPhase /\ OnlyClasses
    \/ ChainPhase /\ ExcludeClasses
    \/ ChainPhase /\ ClearClsQuery
    \/ ChainPhase /\ Timeout
    \/ ChainPhase /\ ReadPreference
    \/ ChainPhase /\ ReadConcern
    \/ ChainPhase /\ Scalar
    \/ ChainPhase /\ AsPymongo
    \/ ChainPhase /\ NoDereference
    \/ ChainPhase /\ GetItemSlice
    \/ Iterate(nqs)
    \/ LenQS(nqs)
    \/ Count(nqs)
    \/ Rewind(nqs)
    \/ Repr(nqs)
    \/ Get(nqs)
    \/ Write

SpecEval == Init /\ [][NextEval]_vars

\* Writes: a QuerySet is configured, then the application writes through it
\* once.
InitWrite ==
    /\ qs = <<InitQuerySet(1)>>
    /\ caches = << <<>> >>
    /\ coll \in {{}, DocIds \ {NDocs}, DocIds \ {1, 2}}
    /\ writes = 0
    /\ last = NoLast
    /\ store = Fixture(1, {}, 0)
    /\ rules = [c \in Classes |-> <<>>]
    /\ NoHierarchy
    /\ observers = "none"
    /\ dlast = NoDelete(store)
    /\ NoConnection
    /\ iters = <<>>
    /\ NoQuery
    /\ NoDocument

WritePhase == last.op \in {"init"} \cup ChainOps

NextWrite ==
    \/ ChainPhase /\ Call
    \/ ChainPhase /\ OrderBy
    \/ ChainPhase /\ ClearClsQuery
    \/ ChainPhase /\ NoSubClasses
    \/ WritePhase /\ Update
    \/ WritePhase /\ UpdateOne
    \/ WritePhase /\ Modify
    \/ WritePhase /\ Insert

SpecWrite == InitWrite /\ [][NextWrite]_vars

\* Slices: a QuerySet is filtered, ordered, limited, skipped and sliced, then
\* the QuerySet the last call returned is iterated or asked for its first
\* document.
InitSlice ==
    /\ qs = <<InitQuerySet(1)>>
    /\ caches = << <<>> >>
    /\ coll \in {{}, DocIds}
    /\ writes = 0
    /\ last = NoLast
    /\ store = Fixture(1, {}, 0)
    /\ rules = [c \in Classes |-> <<>>]
    /\ NoHierarchy
    /\ observers = "none"
    /\ dlast = NoDelete(store)
    /\ NoConnection
    /\ iters = <<>>
    /\ NoQuery
    /\ NoDocument

NextSlice ==
    \/ WritePhase /\ Filter
    \/ WritePhase /\ Limit
    \/ WritePhase /\ Skip
    \/ WritePhase /\ OrderBy
    \/ WritePhase /\ NoneQS
    \/ WritePhase /\ AsPymongo
    \/ WritePhase /\ GetItemSlice
    \/ WritePhase /\ Iterate(nqs)
    \/ First(nqs)

SpecSlice == InitSlice /\ [][NextSlice]_vars

\* Subscripts: a chain of filter, skip, limit, none, scalar and as_pymongo
\* calls on an empty or a full collection, then queryset[key] or first().
NextIndex ==
    \/ WritePhase /\ Filter
    \/ WritePhase /\ Limit
    \/ WritePhase /\ Skip
    \/ WritePhase /\ NoneQS
    \/ WritePhase /\ Scalar
    \/ WritePhase /\ AsPymongo
    \/ GetItemIndex(nqs)
    \/ First(nqs)

SpecIndex == InitSlice /\ [][NextIndex]_vars

\* Field lookup: a path is given, and the methods that translate field names
\* are called with it.
InitLookup ==
    /\ qs = <<InitQuerySet(1)>>
    /\ caches = << <<>> >>
    /\ coll = DocIds
    /\ writes = 0
    /\ last = NoLast
    /\ store = Fixture(1, {}, 0)
    /\ rules = [c \in Classes |-> <<>>]
    /\ NoHierarchy
    /\ observers = "none"
    /\ dlast = NoDelete(store)
    /\ NoConnection
    /\ iters = <<>>
    /\ NoQuery
    /\ upserted = {}
    /\ lk \in {NoLookup(path) : path \in Paths}
    /\ LoadedPerson

NextLookup ==
    \/ LookupFieldCall
    \/ TranslateFieldNameCall
    \/ Distinct
    \/ OrderByKey
    \/ Project
    \/ Sum
    \/ Average

SpecLookup == InitLookup /\ [][NextLookup]_vars

\* Change collection: a graph of documents is given and the changes of its
\* objects are collected.
InitGraph ==
    /\ qs = <<InitQuerySet(1)>>
    /\ caches = << <<>> >>
    /\ coll = DocIds
    /\ writes = 0
    /\ last = NoLast
    /\ store = Fixture(1, {}, 0)
    /\ rules = [c \in Classes |-> <<>>]
    /\ NoHierarchy
    /\ observers = "none"
    /\ dlast = NoDelete(store)
    /\ NoConnection
    /\ iters = <<>>
    /\ NoQuery
    /\ upserted = {}
    /\ lk = NoLookup(<<"title">>)
    /\ \E has_id \in BOOLEAN : graph \in Graphs(has_id)
    /\ mem = ReadStored(SavedPerson)
    /\ db = SavedPerson
    /\ dop = NoDocOp

NextGraph == GetChangedFieldsCall

SpecGraph == InitGraph /\ [][NextGraph]_vars

\* The life of a Person instance: loaded from the stored document or newly
\* constructed, then changed, saved and reloaded.
InitDocument ==
    /\ qs = <<InitQuerySet(1)>>
    /\ caches = << <<>> >>
    /\ coll = DocIds
    /\ writes = 0
    /\ last = NoLast
    /\ store = Fixture(1, {}, 0)
    /\ rules = [c \in Classes |-> <<>>]
    /\ NoHierarchy
    /\ observers = "none"
    /\ dlast = NoDelete(store)
    /\ NoConnection
    /\ iters = <<>>
    /\ NoQuery
    /\ upserted = {}
    /\ lk = NoLookup(<<"title">>)
    /\ graph = PersonGraph
    /\ dop = NoDocOp
    /\ \/ mem = ReadStored(SavedPerson) /\ db = SavedPerson
       \/ mem = [ReadStored(NoPerson) EXCEPT !.created = FALSE] /\ db = NoPerson

NextDocument ==
    \/ GetChangedFieldsCall
    \/ DeltaCall
    \/ MarkAsChanged
    \/ ClearChangedFieldsCall
    \/ Assign
    \/ Save
    \/ Reload
    \/ FromSon

SpecDocument == InitDocument /\ [][NextDocument]_vars

\* Connections: aliases are registered, connected, asked for their client
\* and database, and disconnected, in any order.
NextConnection ==
    \/ RegisterConnection
    \/ Disconnect
    \/ GetConnection
    \/ GetDb
    \/ Connect

SpecConnection == Init /\ [][NextConnection]_vars

\* Iterators: up to MaxIters iterators of one QuerySet over a collection of
\* ManyDocs or NDocs documents are advanced in any interleaving.
InitIterators ==
    /\ qs = <<InitQuerySet(1)>>
    /\ caches = << <<>> >>
    /\ coll \in {1..ManyDocs, DocIds}
    /\ writes = 0
    /\ last = NoLast
    /\ store = Fixture(1, {}, 0)
    /\ rules = [c \in Classes |-> <<>>]
    /\ NoHierarchy
    /\ observers = "none"
    /\ dlast = NoDelete(store)
    /\ NoConnection
    /\ iters = <<>>
    /\ NoQuery
    /\ NoDocument

NextIterators ==
    \/ OpenIter(1)
    \/ \E i \in 1..MaxIters : NextItem(i)

SpecIterators == InitIterators /\ [][NextIterators]_vars

\* One QuerySet over such a collection: one iterator, len(), repr() and
\* rewind(), the last while the cache is no longer than the collection.
NextRewind ==
    \/ iters = <<>> /\ OpenIter(1)
    \/ NextItem(1)
    \/ LenQS(1)
    \/ Repr(1)
    \/ Len(CacheOf(1)) <= Cardinality(coll) /\ Rewind(1)

SpecRewind == InitIterators /\ [][NextRewind]_vars

\* Rules and subclasses: subclasses are defined and rules registered in any
\* order, then all documents of one class are deleted.
InitRules ==
    /\ qs = <<InitQuerySet(1)>>
    /\ caches = << <<>> >>
    /\ coll = DocIds
    /\ writes = 0
    /\ last = NoLast
    /\ store \in {Fixture(1, {}, 1), Fixture(NAuthors, {}, 1)}
    /\ rules = [c \in Classes |-> <<>>]
    /\ NoHierarchy
    /\ observers = "none"
    /\ dlast = NoDelete(store)
    /\ NoConnection
    /\ iters = <<>>
    /\ NoQuery
    /\ NoDocument

NextRules ==
    \/ DefineSubclass
    \/ RegisterDeleteRuleOf(HierarchyChoices)
    \/ DeleteAll

SpecRules == InitRules /\ [][NextRules]_vars

\* Authors that refer to Authors: Author 1 refers to first and the last
\* Author to second (0: to none); Book 1 refers to Author 1.
CycleFixture(first, second) ==
    [Fixture(1, {}, 0) EXCEPT
        !["Author"] = [id \in Ids("Author") |->
                          IF id = 1 THEN Stored(first, {})
                          ELSE IF id = NAuthors THEN Stored(second, {})
                          ELSE Stored(0, {})]]

\* The rules of a class that refers to itself: Author.ref on Author, next to
\* Book.ref on Author.
CycleChoices ==
    {[cls |-> "Author", document_cls |-> d, field_name |-> "ref", rule |-> r] :
        d \in {"Author", "Book"}, r \in {NULLIFY, CASCADE, DENY}}

\* Self-references: Authors refer to Authors in every way, rules are
\* registered, then all documents of one class are deleted.
InitCycle ==
    /\ qs = <<InitQuerySet(1)>>
    /\ caches = << <<>> >>
    /\ coll = DocIds
    /\ writes = 0
    /\ last = NoLast
    /\ store \in {CycleFixture(first, second) : first, second \in 0..NAuthors}
    /\ rules = [c \in Classes |-> <<>>]
    /\ NoHierarchy
    /\ observers = "none"
    /\ dlast = NoDelete(store)
    /\ NoConnection
    /\ iters = <<>>
    /\ NoQuery
    /\ NoDocument

NextCycle ==
    \/ RegisterDeleteRuleOf(CycleChoices)
    \/ DeleteAll

SpecCycle == InitCycle /\ [][NextCycle]_vars

\* Queries: a compiled query of a parent mapping and up to MaxChildren
\* mappings under $and, and reads of _query.
InitQuery ==
    /\ qs = <<InitQuerySet(1)>>
    /\ caches = << <<>> >>
    /\ coll = DocIds
    /\ writes = 0
    /\ last = NoLast
    /\ store = Fixture(1, {}, 0)
    /\ rules = [c \in Classes |-> <<>>]
    /\ NoHierarchy
    /\ observers = "none"
    /\ dlast = NoDelete(store)
    /\ NoConnection
    /\ iters = <<>>
    /\ NoDocument
    /\ compiled \in Queries
    /\ mongo_query = compiled
    /\ returned = <<>>

NextQuery == QueryRead

SpecQuery == InitQuery /\ [][NextQuery]_vars

(***************************************************************************)
(* Properties of the cursor.                                               *)
(***************************************************************************)
\* What a chain method must not change on its receiver.
ReceiverView(s) ==
    [query_obj |-> s.query_obj, initial_query |-> s.initial_query,
     loaded_fields |-> s.loaded_fields, ordering |-> s.ordering,
     skip |-> s.skip, limit |-> s.limit]

\* C2: no chain method modifies its receiver: after any chain call every
\* existing QuerySet has the criterion tree, class filter, projection,
\* ordering, skip, limit and result cache it had before the call.
C2_ChainLeavesReceiver ==
    [][last'.op \in ChainOps =>
          \A q \in 1..nqs :
              /\ ReceiverView(qs'[q]) = ReceiverView(qs[q])
              /\ caches'[qs[q].result_cache] = caches[qs[q].result_cache]]_vars

\* C3: the QuerySet a chain call returns starts with an empty cache, not
\* exhausted and with no cached length, and a step that fills the cache of
\* one QuerySet leaves the cache of every other QuerySet as it was.
C3_ClonePrivateCache ==
    [][/\ (last'.op \in ChainOps /\ last'.ret > nqs) =>
              /\ caches'[qs'[last'.ret].result_cache] = <<>>
              /\ qs'[last'.ret].has_more
              /\ qs'[last'.ret].len = NoneN
       /\ \A q \in 1..nqs :
              q # last'.q => caches'[qs'[q].result_cache] = caches[qs[q].result_cache]
       /\ \A q \in 1..nqs :
              last'.op \in ChainOps =>
                  caches'[qs'[q].result_cache] = caches[qs[q].result_cache]]_vars

\* A clone was taken from an evaluated QuerySet and then evaluated itself.
C3_Witness ==
    /\ last.op = "len" /\ last.q > 1
    /\ CacheOf(last.q) # <<>>
    /\ CacheOf(1) # <<>> /\ qs[1].len # NoneN /\ ~qs[1].has_more
    /\ CacheOf(1) # CacheOf(last.q)

\* The configuration elements of a QuerySet and the ones each chain method
\* is called to change.
ConfigFields ==
    {"query_obj", "initial_query", "loaded_fields", "ordering", "skip", "limit",
     "hint", "batch_size", "timeout", "read_preference", "read_concern", "none",
     "scalar", "as_pymongo"}

Targets(op) ==
    CASE op \in {"all", "filter"} -> {"query_obj"}
      [] op = "call" -> {"query_obj", "read_preference"}
      [] op \in {"only", "exclude", "fields", "all_fields"} -> {"loaded_fields"}
      [] op \in {"no_sub_classes", "only_classes", "exclude_classes",
                 "clear_cls_query"} -> {"initial_query"}
      [] op = "order_by" -> {"ordering"}
      [] op = "getitem" -> {"skip", "limit"}
      [] op = "scalar" -> {"scalar", "loaded_fields"}
      [] OTHER -> {op}

\* C4: the QuerySet a chain call returns has every configuration element of
\* the receiver that the call was not made to change, the read concern
\* included.
C4_ChainPreservesConfig ==
    [][(last'.op \in ChainOps /\ last'.ret # 0) =>
          \A f \in ConfigFields \ Targets(last'.op) :
              qs'[last'.ret][f] = qs[last'.q][f]]_vars

\* The criteria a get() step was called with.
GetQuery(arg) == IF arg = 0 THEN <<>> ELSE <<CHOOSE n \in Names : NameRank(n) = arg>>

\* The stored documents that satisfy the receiver's criterion tree and class
\* filter and the criteria given to get(), in natural order ...
GetMatching(s, query, stored) ==
    FindDocs(stored, [crit |-> QAnd(s.query_obj, query), cls |-> s.initial_query],
             <<>>, 0, 0)

\* ... and the ones of them left after the receiver's skip; none when the
\* receiver has the none flag.
GetSelected(s, query, stored) ==
    IF s.none THEN <<>>
    ELSE Drop(GetMatching(s, query, stored),
              IF s.skip = NoneN THEN 0 ELSE s.skip)

GetOutcome(docs, s, l) ==
    /\ Len(docs) = 1 <=> l.err = NoneV
    /\ Len(docs) = 1 => l.items = <<Materialise(s, docs[1])>>
    /\ Len(docs) = 0 => l.err = "DoesNotExist"
    /\ Len(docs) >= 2 => l.err = "MultipleObjectsReturned"
    /\ l.pulled <= 2

\* C5 as stated: get(criteria) returns the matching document if and only if
\* exactly one document matches, raises DoesNotExist when none matches and
\* MultipleObjectsReturned when two or more match, pulls at most two
\* documents from the data source and leaves the receiver unchanged.
C5_GetExactlyOneMatching ==
    [][last'.op = "get" =>
          /\ GetOutcome(GetMatching(qs[last'.q], GetQuery(last'.arg), coll),
                        qs[last'.q], last')
          /\ qs' = qs /\ caches' = caches]_vars

\* C5: get(criteria) decides on the documents that match the receiver's
\* criterion tree, its class filter and the given criteria and that are left
\* after the receiver's skip, none when the receiver has the none flag: it
\* returns the document when exactly one is left, raises DoesNotExist when
\* none is and MultipleObjectsReturned when two or more are; it pulls at
\* most two documents and leaves the receiver unchanged.
C5_GetExactlyOneSelected ==
    [][last'.op = "get" =>
          /\ GetOutcome(GetSelected(qs[last'.q], GetQuery(last'.arg), coll),
                        qs[last'.q], last')
          /\ qs' = qs /\ caches' = caches]_vars

\* get() returned a document although two documents match the criteria.
C5_Witness ==
    /\ last.op = "get" /\ last.err = NoneV /\ last.pulled = 1
    /\ Len(GetMatching(qs[last.q], GetQuery(last.arg), coll)) = 2

\* C6: a drained QuerySet stays drained; iterating it again or taking its
\* length makes no call to the data source and changes no cache, the
\* iteration yields the cached sequence, and len() answers with the length
\* it holds or else the size of the cache.
C6_DrainedStaysDrained ==
    [][/\ \A q \in 1..nqs : ~qs[q].has_more => ~qs'[q].has_more
       /\ (last'.op \in {"iter", "len"} /\ ~qs[last'.q].has_more) =>
              /\ last'.calls = 0
              /\ caches' = caches
              /\ last'.op = "iter" => last'.items = CacheOf(last'.q)
              /\ last'.op = "len" =>
                     last'.value = IF qs[last'.q].len # NoneN THEN qs[last'.q].len
                                   ELSE Len(CacheOf(last'.q))]_vars

\* A drained QuerySet was iterated again after the collection had changed.
C6_Witness ==
    /\ last.op = "iter" /\ last.calls = 0 /\ last.items # <<>>
    /\ writes > 0
    /\ Range(last.items) # {Materialise(qs[last.q], d) :
                               d \in Range(CursorDocs(CursorOf(qs[last.q]), coll))}

\* C7: on a QuerySet whose limit is 0 or whose none flag is set, iteration
\* yields nothing, len() and count() return 0, and no call is made to the
\* data source.
C7_EmptyWithoutFetch ==
    (/\ last.op \in {"iter", "len", "count"}
     /\ (qs[last.q].limit = 0 \/ qs[last.q].none)) =>
        /\ last.calls = 0
        /\ last.op = "iter" => last.items = <<>>
        /\ last.op \in {"len", "count"} => last.value = 0

\* A QuerySet with limit 0 over stored documents was iterated.
C7_Witness ==
    /\ last.op = "iter" /\ qs[last.q].limit = 0 /\ ~qs[last.q].none
    /\ GetMatching(qs[last.q], <<>>, coll) # <<>>
    /\ last.items = <<>>

C1_DenyLeavesStore ==
    (dlast.op = "delete" /\ dlast.err = "OperationError") => store = dlast.pre

\* The events of the last delete() logged by the call itself (depth 0).
TopEvents(ev) ==
    {i \in 1..Len(dlast.log) : dlast.log[i].ev = ev /\ dlast.log[i].depth = 0}

\* The QuerySet has a skip or a limit applied: a skip of 0 skips nothing,
\* a limit of 0 is a limit.
SkipOrLimitApplied(c) == Truthy(c.skip) \/ c.limit # NoneN

\* C9: delete() on a QuerySet with a skip or a limit applied, or of a class
\* with pre/post-delete receivers, and not called with _from_doc_delete,
\* issues no bulk delete of its own and deletes each document it matches
\* through Document.delete; any other delete() issues exactly one bulk delete
\* and calls no Document.delete.
C9_PerDocumentOrBulk ==
    dlast.op = "delete" =>
        IF /\ SkipOrLimitApplied(dlast.c) \/ HasReceiversFor(dlast.c.document)
           /\ ~dlast.from_doc_delete
        THEN /\ TopEvents("delete_many") = {}
             /\ dlast.err = NoneV =>
                    [i \in 1..Cardinality(TopEvents("pre_delete")) |->
                        dlast.log[SortSet(TopEvents("pre_delete"),
                                          [k \in 1..Len(dlast.log) |-> k])[i]].id]
                    = DeleteIter(dlast.pre, dlast.c)
        ELSE /\ TopEvents("pre_delete") = {}
             /\ dlast.err = NoneV => Cardinality(TopEvents("delete_many")) = 1

\* The documents of class t the last delete() removed.
Deleted(t) == {id \in Ids(t) : dlast.pre[t][id].present /\ ~store[t][id].present}

\* The class a reference field of class t refers to.
RefType(t) == IF t = "Review" THEN "Book" ELSE "Author"

\* Document doc of class t refers to a document the last delete() removed.
RefersToDeleted(t, doc) ==
    doc.ref \in Deleted(RefType(t)) \/ doc.refs \cap Deleted(RefType(t)) # {}

\* C10: after a delete() that returned, no stored document refers to a
\* deleted document through a field with a registered rule, and every stored
\* document that referred to no deleted document is as it was.
C10_NoDanglingReference ==
    (dlast.op = "delete" /\ dlast.err = NoneV) =>
        /\ \A cls \in Types : \A i \in 1..Len(rules[cls]) :
               LET r == rules[cls][i]
               IN \A id \in Ids(r.document_cls) :
                      LET doc == store[r.document_cls][id]
                      IN doc.present =>
                             IF r.field_name = "refs"
                             THEN doc.refs \cap Deleted(cls) = {}
                             ELSE doc.ref \notin Deleted(cls)
        /\ \A t \in Types : \A id \in Ids(t) :
               (store[t][id].present /\ ~RefersToDeleted(t, dlast.pre[t][id]))
                   => store[t][id] = dlast.pre[t][id]

\* The ids of the events ev the last delete() logged itself, in order.
TopIds(ev) ==
    LET at == SortSet(TopEvents(ev), [k \in 1..Len(dlast.log) |-> k])
    IN [i \in 1..Len(at) |-> dlast.log[at[i]].id]

\* C11: a delete() that takes the per-document path terminates (no
\* Document.delete re-enters the per-document loop until the interpreter
\* gives up), and when it returns, every document the QuerySet yielded is
\* removed and pre_delete and post_delete were each sent once per document,
\* in the order of the documents.
C11_PerDocumentTerminates ==
    (/\ dlast.op = "delete"
     /\ ~dlast.from_doc_delete
     /\ \/ Truthy(dlast.c.skip) \/ Truthy(dlast.c.limit)
        \/ HasReceiversFor(dlast.c.document)) =>
        /\ dlast.err # "RecursionError"
        /\ dlast.err = NoneV =>
               /\ TopIds("pre_delete") = DeleteIter(dlast.pre, dlast.c)
               /\ TopIds("post_delete") = DeleteIter(dlast.pre, dlast.c)
               /\ \A id \in Range(DeleteIter(dlast.pre, dlast.c)) :
                      ~store[dlast.c.document.type][id].present


(***************************************************************************)
(* Properties of the writes.                                               *)
(***************************************************************************)
\* The call update() or update_one() made to the collection.
SentUpdate == last.items[1]

\* C12: every update(upsert=True) and update_one(upsert=True) on a QuerySet
\* of the polymorphic class Doc sends an update whose $set holds _cls with
\* the class name, whatever class filter the QuerySet was given.
C12_UpsertSetsCls ==
    (last.op \in {"update", "update_one"} /\ last.arg[1] /\ last.calls = 1) =>
        <<"$set", "_cls", ClassName>> \in SentUpdate.update

\* C13: a write the data source failed is sent once; the QuerySet raises
\* NotUniqueError when a duplicate key caused the failure, and otherwise
\* OperationError with the message of the data source.
C13_WriteFailures ==
    (/\ last.op \in {"insert", "update", "update_one", "modify"}
     /\ last.calls > 0
     /\ last.arg[3] # NoFault) =>
        /\ last.calls = 1
        /\ IF last.arg[3].dup THEN last.err.type = "NotUniqueError"
           ELSE /\ last.err.type = "OperationError"
                /\ last.err.detail = last.arg[3].msg

(***************************************************************************)
(* Properties of the field lookup.                                         *)
(***************************************************************************)
\* C14: every QuerySet method that translates field names raises
\* LookUpError for a path _lookup_field cannot resolve, sends nothing to the
\* collection and does not go on with the untranslated path.
C14_UnresolvedPathRaises ==
    (/\ lk.op \in {"distinct", "order_by", "only", "exclude", "fields", "sum",
                   "average"}
     /\ LookupField(lk.path).err = "LookUpError") =>
        /\ lk.r.err = "LookUpError"
        /\ lk.r.sent = <<>>
        /\ lk.r.keys = <<>>

\* The member names of the sub-schema a field declares.
SubSchema(field) ==
    IF field.type = NoneV THEN {} ELSE {f.name : f \in Schema[field.type]}

\* C15: _lookup_field raises LookUpError when the first segment is neither
\* a field of Post nor pk, when the second segment follows a reference
\* field, and when the second segment is not a member of the sub-schema of
\* the first field; address.zipcode gives the address field followed by the
\* zipcode field of Address.
C15_LookupFieldErrors ==
    lk.op = "_lookup_field" =>
        LET first == FieldOf("Post", IF lk.path[1] = "pk" THEN IdField
                                     ELSE lk.path[1])
        IN /\ first = <<>> => lk.r.err = "LookUpError"
           /\ (first # <<>> /\ Len(lk.path) > 1 /\ first[1].kind = "reference") =>
                  lk.r.err = "LookUpError"
           /\ (/\ first # <<>> /\ Len(lk.path) > 1
               /\ ~IsDigit(lk.path[2])
               /\ lk.path[2] \notin SubSchema(first[1])) =>
                  lk.r.err = "LookUpError"
           /\ lk.path = <<"address", "zipcode">> =>
                  /\ lk.r.err = NoneV
                  /\ lk.r.keys = <<FieldOf("Post", "address")[1],
                                   FieldOf("Address", "zipcode")[1]>>

\* C16: for items.0.name, _lookup_field returns the items field, the
\* segment 0 as it is and the name field of Item, and
\* _translate_field_name returns the storage path items.0.n; a leading pk
\* is translated to the storage name of the primary key.
C16_NumericSegmentKept ==
    /\ (lk.op = "_lookup_field" /\ lk.path = <<"items", "0", "name">>) =>
           /\ lk.r.err = NoneV
           /\ lk.r.keys = <<FieldOf("Post", "items")[1], Str("0"),
                            FieldOf("Item", "name")[1]>>
    /\ (lk.op = "_translate_field_name" /\ lk.path = <<"items", "0", "name">>) =>
           /\ lk.r.err = NoneV
           /\ lk.r.keys = << <<"items", "0", "n">> >>
    /\ (lk.op = "_translate_field_name" /\ lk.path = <<"pk">>) =>
           /\ lk.r.err = NoneV
           /\ lk.r.keys = << <<"_id">> >>

(***************************************************************************)
(* Properties of the change tracker.                                       *)
(***************************************************************************)
\* The changes _get_changed_fields reports for object o now.
ChangeSet(o) == GetChangedFields(graph, o, {}, 0).changed

\* C17: after the instance was made from stored data, after reload() and
\* after a save() that succeeded, the change sets of the Person and of its
\* embedded Address are empty; after a save() that failed, the change set
\* is what it was before.
C17_ChangeSetLifecycle ==
    /\ (dop.op \in {"_from_son", "reload", "save"} /\ dop.err = NoneV) =>
           ChangeSet(1) = <<>> /\ ChangeSet(2) = <<>>
    /\ (dop.op = "save" /\ dop.err # NoneV) => ChangeSet(1) = dop.out[1].changed

\* The resolved default of every field, as the classes declare it.
DeclaredDefault ==
    [name |-> NoneV, count |-> "0", tags |-> "[]", child |-> NoneV,
     zipcode |-> NoneV]

\* The value the instance holds at a path: an attribute of the Person, the
\* stored form of its Address, or an attribute of the Address.
ValueAt(m, path) ==
    IF Len(path) = 2 THEN m.child[path[2]]
    ELSE IF path[1] = "child" THEN ChildSon(m.child)
    ELSE m.root[path[1]]

\* The pair the last _delta() returned.
LastDelta == dop.out[1]
InSet(path) == \E e \in LastDelta.set : e[1] = path
DeltaOfTracked == dop.op = "_delta" /\ graph.heap[1].tracked

SavedBefore == dop.out[1].out[1]
ReloadAfterSave ==
    /\ dop.op = "reload" /\ dop.err = NoneV
    /\ dop.out[1].op = "save" /\ dop.out[1].err = NoneV

C20_CollectTerminates ==
    dop.op = "_get_changed_fields" =>
        /\ dop.err # "RecursionError"
        /\ \A e \in Embedded :
               Cardinality({i \in 1..Len(dop.out[1].calls) :
                               dop.out[1].calls[i] = e}) <= 1

\* How many times key occurs in the _changed_fields list of an object.
Occurrences(obj, key) ==
    Cardinality({i \in 1..Len(obj.changed) : obj.changed[i] = key})

\* dop' records a _mark_as_changed call made in this step.
MarkStep == dop'.n = dop.n + 1 /\ dop'.op = "_mark_as_changed"

\* C21: after _mark_as_changed(p) with a non-empty p the change set of the
\* instance holds p exactly once, whether the instance was just loaded or
\* was saved before; marking the empty path changes nothing.
C21_MarkedOnce ==
    [][MarkStep =>
           IF dop'.arg[2] = <<>> THEN graph' = graph
           ELSE Occurrences(graph'.heap[dop'.arg[1]], dop'.arg[2]) = 1]_vars

(***************************************************************************)
(* Properties of slices and of first().                                    *)
(***************************************************************************)
\* The ids a QuerySet that was not iterated yet yields when it is iterated.
Yielded(s, stored) ==
    LET st == IterateOp(s, <<>>, stored)
    IN [i \in 1..Len(st.cache) |-> st.cache[i].id]

\* The step is a subscript with a slice; its key is <<start, stop, whether
\* the driver refuses an empty slice>>.
SliceStep == last'.op = "getitem"

\* C22: cursor[n:n] returns a QuerySet with limit 0 that yields nothing,
\* whether or not the driver raises IndexError for the empty slice, and
\* leaves the receiver as it was.
C22_EmptySlice ==
    [][(SliceStep /\ last'.key[1] # NoneN /\ last'.key[1] = last'.key[2]) =>
           /\ last'.err = NoneV
           /\ qs'[last'.ret].limit = 0
           /\ Yielded(qs'[last'.ret], coll') = <<>>
           /\ qs'[last'.q] = qs[last'.q]
           /\ caches'[qs[last'.q].result_cache] = caches[qs[last'.q].result_cache]]_vars

\* cursor[1:1] was taken from a QuerySet that yields documents, with a
\* driver that refuses the empty slice.
C22_Witness ==
    /\ last.op = "getitem" /\ last.err = NoneV
    /\ last.key = <<1, 1, TRUE>>
    /\ Yielded(qs[last.q], coll) # <<>>

\* Positions a+1..b of a sequence, NoneN standing for an open end.
Positions(seq, start, stop) ==
    LET a == IF start = NoneN THEN 0 ELSE start
        b == IF stop = NoneN \/ stop > Len(seq) THEN Len(seq) ELSE stop
    IN SubSeq(seq, a + 1, b)

\* The slice of the step is [a:b] with 0 <= a < b, [a:] or [:b].
ProperSlice ==
    /\ SliceStep
    /\ last'.key[1] # NoneN \/ last'.key[2] # NoneN
    /\ last'.key[2] # NoneN =>
           last'.key[2] > (IF last'.key[1] = NoneN THEN 0 ELSE last'.key[1])

\* C23: cursor[a:b] returns a clone that yields the documents at positions
\* a..b-1 of what the receiver yields, also when the receiver has a skip or
\* a limit already; on a receiver without them the clone has skip a and
\* limit b - a.
C23_SliceOfReceiver ==
    [][ProperSlice =>
           /\ last'.err = NoneV
           /\ Yielded(qs'[last'.ret], coll') =
                  Positions(Yielded(qs[last'.q], coll), last'.key[1], last'.key[2])
           /\ (/\ qs[last'.q].skip = NoneN /\ qs[last'.q].limit = NoneN
               /\ last'.key[1] # NoneN /\ last'.key[2] # NoneN) =>
                  /\ qs'[last'.ret].skip = last'.key[1]
                  /\ qs'[last'.ret].limit = last'.key[2] - last'.key[1]]_vars

\* The sequence of ids QuerySet q yields: its cache when it was iterated.
ResultSeq(q) ==
    IF qs[q].has_more THEN Yielded(qs[q], coll)
    ELSE [i \in 1..Len(CacheOf(q)) |-> CacheOf(q)[i].id]

\* C24: first() returns the first document of what the QuerySet yields and
\* None when it yields nothing, never raises, and leaves the receiver and
\* its result cache as they were.
C24_FirstOfSequence ==
    [][last'.op = "first" =>
           /\ last'.err = NoneV
           /\ IF ResultSeq(last'.q) = <<>> THEN last'.items = <<>>
              ELSE /\ last'.items # <<>>
                   /\ last'.items[1].id = ResultSeq(last'.q)[1]
           /\ qs' = qs /\ caches' = caches]_vars

(***************************************************************************)
(* Properties of modify().                                                 *)
(***************************************************************************)
\* The last modify() was called with remove and new both set, or without
\* update keywords, upsert and remove.  Its arguments are <<upsert, update,
\* fault, remove, new>>.
ModifyRefused ==
    /\ last.op = "modify"
    /\ \/ last.arg[4] /\ last.arg[5]
       \/ last.arg[2] = {} /\ ~last.arg[1] /\ ~last.arg[4]

\* C25: modify() with remove and new both set, or with no update keywords
\* while upsert and remove are both false, sends nothing to the collection
\* and raises OperationError.
C25_ModifyFailsFast ==
    ModifyRefused => last.calls = 0 /\ last.err.type = "OperationError"

\* modify(remove=True, new=True, set__title='t') was called on a collection
\* that holds documents, and nothing was sent.
C25_Witness ==
    /\ ModifyRefused /\ coll # {}
    /\ last.arg[4] /\ last.arg[5] /\ last.arg[2] # {}
    /\ last.calls = 0

(***************************************************************************)
(* Properties of save().                                                   *)
(***************************************************************************)
\* The paths an update of save() names, in $set or in $unset.
UpdatePaths(update) == {e[1] : e \in update.set} \cup update.unset

\* C26: save() sends an insert exactly when the instance is not persisted
\* yet, and the instance is persisted after a save() that succeeded; a
\* save() of a persisted instance sends at most one update and no insert,
\* the update names only paths of the change set and never the id, and
\* nothing is sent when the change set is empty.
C26_SaveWrites ==
    dop.op = "save" =>
        LET before == dop.out[1].mem
            sent == dop.out[1].sent
            changed == Range(dop.out[1].changed)
        IN /\ (sent # <<>> /\ sent[1].func = "insert") <=> ~before.created
           /\ dop.err = NoneV => mem.created
           /\ before.created =>
                  /\ Len(sent) <= 1
                  /\ changed = {} => sent = <<>>
                  /\ sent # <<>> =>
                         /\ UpdatePaths(sent[1].update) \subseteq changed
                         /\ <<"_id">> \notin UpdatePaths(sent[1].update)

(***************************************************************************)
(* Properties of the ordering.                                             *)
(***************************************************************************)
\* All documents the driver cursor of s selects, in the order of its sort.
SortedHits(s, stored) ==
    FindDocs(stored, CursorOf(s).query, CursorOf(s).sort, 0, 0)

\* seq is a run of consecutive elements of full.
IsWindow(seq, full) ==
    \E i \in 0..Len(full) : \E n \in 0..(Len(full) - i) :
        seq = SubSeq(full, i + 1, i + n)

\* C27: the driver cursor of a QuerySet is sorted by the keys of the last
\* order_by(), by nothing after an order_by() without keys, and by the
\* default ordering of the document class when order_by() was never
\* called; skip and limit cut a window out of the sorted result whatever
\* the order of the calls.  The key of an order_by step is <<keys, whether
\* the driver refuses an empty key list>>.
C27_SortedBeforeWindow ==
    [][last'.op \in ChainOps =>
           /\ CursorOf(qs[1]).sort = OrderKeys(DefaultOrdering)
           /\ last'.op = "order_by" =>
                  /\ last'.err = NoneV
                  /\ CursorOf(qs'[last'.ret]).sort = OrderKeys(last'.key[1])
           /\ (last'.op # "order_by" /\ last'.ret # 0) =>
                  CursorOf(qs'[last'.ret]).sort = CursorOf(qs[last'.q]).sort
           /\ last'.ret # 0 =>
                  IsWindow(Yielded(qs'[last'.ret], coll'),
                           SortedHits(qs'[last'.ret], coll'))]_vars

(***************************************************************************)
(* Properties of the connection module.                                    *)
(***************************************************************************)
\* The step is a call of the connection module, recorded in clast'.
ConnStep == clast'.n = clast.n + 1

\* C28: get_db(alias) returns a database that has the name registered last
\* for the alias and is on the client get_connection(alias) returns; and
\* get_connection(alias) returns the client the alias has already, unless
\* it is called with reconnect.
C28_DbOfRegisteredName ==
    [][ConnStep =>
           /\ (clast'.op = "get_db" /\ clast'.err = NoneV) =>
                  /\ clast'.db[1].name = connection_settings'[clast'.alias][1].name
                  /\ <<clast'.db[1].client>> = connections'[clast'.alias]
           /\ (/\ clast'.op = "get_connection" /\ ~clast'.reconnect
               /\ connections[clast'.alias] # <<>>) =>
                  /\ clast'.err = NoneV
                  /\ <<clast'.conn>> = connections[clast'.alias]]_vars

\* C29: get_connection(alias) raises ConnectionError when the alias has no
\* settings, whatever other aliases have, and when the client cannot be
\* made, and then leaves the three registries as they were.
C29_GetConnectionFails ==
    [][(/\ ConnStep /\ clast'.op = "get_connection" /\ ~clast'.reconnect
        /\ connections[clast'.alias] = <<>>) =>
           /\ connection_settings[clast'.alias] = <<>> => clast'.err = "ConnectionError"
           /\ clast'.err # NoneV =>
                  /\ clast'.err = "ConnectionError"
                  /\ UNCHANGED <<connection_settings, connections, dbs>>]_vars

\* get_connection('default') raised while testdb was registered and
\* connected.
C29_Witness ==
    /\ clast.op = "get_connection" /\ clast.alias = DEFAULT_CONNECTION_NAME
    /\ clast.err = "ConnectionError"
    /\ connection_settings[DEFAULT_CONNECTION_NAME] = <<>>
    /\ connections["testdb"] # <<>>

(***************************************************************************)
(* Flattening of a top-level $and.                                         *)
(***************************************************************************)
QueryDocs == [name : {"a", "b"}, n : {"1", "2"}]

\* Whether a document satisfies the condition stored under a key.
CondHolds(doc, key, cond) ==
    CASE key = "name" -> doc.name = cond
      [] key = "n" -> doc.n = cond
      [] OTHER -> doc.name = "b" \/ doc.n = "2"

MappingHolds(doc, mapping) ==
    \A k \in DOMAIN mapping : CondHolds(doc, k, mapping[k])

\* The documents a query dict selects: those that satisfy every entry of
\* the parent and every mapping under $and.
Selected(query) ==
    {doc \in QueryDocs :
        /\ MappingHolds(doc, query.parent)
        /\ \A i \in 1..Len(query.and) : MappingHolds(doc, query.and[i])}

\* Some key occurs twice among the parent's keys and the children's keys.
KeyTwice(query) ==
    \/ \E i \in 1..Len(query.and) : DOMAIN query.and[i] \cap DOMAIN query.parent # {}
    \/ \E i, j \in 1..Len(query.and) :
          i # j /\ DOMAIN query.and[i] \cap DOMAIN query.and[j] # {}

ReadStep == Len(returned') = Len(returned) + 1

C30_WitnessNested ==
    /\ Len(returned) = MaxReads
    /\ KeyTwice(compiled)
    /\ returned[2] = compiled

(***************************************************************************)
(* Rule tables and subclasses.                                             *)
(***************************************************************************)
\* The rules a table holds under the key (document_cls, field_name).
RulesUnder(table, document_cls, field_name) ==
    {table[i].rule : i \in {j \in 1..Len(table) :
                               /\ table[j].document_cls = document_cls
                               /\ table[j].field_name = field_name}}

RuleKeys(table) ==
    {<<table[i].document_cls, table[i].field_name>> : i \in 1..Len(table)}

RegisterStep ==
    /\ rlast' # <<>>
    /\ defined' = defined
    /\ dlast' = dlast
    /\ <<rules, shares, rlast>>' # <<rules, shares, rlast>>

RulesDeleteStep == dlast'.n = dlast.n + 1 /\ dlast'.op = "delete"

\* The classes the writes of a delete touched at a nesting depth.
Touched(log, ev, depth) ==
    {log[i].type : i \in {j \in 1..Len(log) : log[j].ev = ev /\ log[j].depth = depth}}

RuledBy(table, kinds) ==
    {table[i].document_cls : i \in {j \in 1..Len(table) : table[j].rule \in kinds}}

\* C31: after T.register_delete_rule(D, field, rule), T and every subclass
\* of T defined at that time hold the rule under (D', field) for D and
\* every subclass D' of D defined at that time, and no table loses a key;
\* a delete on a class applies the rules of that class's own table and no
\* others.
C31_RulesExpandAtRegistration ==
    [][/\ RegisterStep =>
            LET e == rlast'[1]
            IN  /\ \A t \in Range(SubclassNames(e.cls, defined)) :
                   \A d \in Range(SubclassNames(e.document_cls, defined)) :
                       RulesUnder(rules'[t], d, e.field_name) = {e.rule}
                /\ \A c \in Classes : RuleKeys(rules[c]) \subseteq RuleKeys(rules'[c])
       /\ RulesDeleteStep /\ dlast'.err = NoneV =>
            LET own == rules[dlast'.c.document.type]
            IN  /\ Touched(dlast'.log, "update_many", 0) = RuledBy(own, {NULLIFY, PULL})
                /\ Touched(dlast'.log, "delete_many", 1) \subseteq RuledBy(own, {CASCADE})
                /\ own = <<>> => Len(dlast'.log) = 1]_vars

\* Author.register_delete_rule(Book, "ref", NULLIFY) reached Poet and
\* Novel, both defined by then, and a delete of the Poets applied it.
C31_Witness ==
    /\ defined = Classes
    /\ rlast = <<[cls |-> "Author", document_cls |-> "Book", field_name |-> "ref",
                 rule |-> NULLIFY]>>
    /\ shares["Poet"] = "Poet"
    /\ RulesUnder(rules["Poet"], "Novel", "ref") = {NULLIFY}
    /\ rules["Book"] = <<>>
    /\ dlast.n = 1
    /\ dlast.c.document.type = "Poet"
    /\ "Novel" \in Touched(dlast.log, "update_many", 0)
    /\ store["Book"][NBooks].ref = 0
    /\ dlast.pre["Book"][NBooks].ref = NAuthors

(***************************************************************************)
(* Properties of the result cache and of iterators.                        *)
(***************************************************************************)
\* The ids of the result sequence of QuerySet q, in the order of the source.
SourceSeq(q) == CursorDocs(CursorOf(qs[q]), coll)

Ids_(items) == [i \in 1..Len(items) |-> items[i].id]

IsPrefix(seq, full) == Len(seq) <= Len(full) /\ seq = SubSeq(full, 1, Len(seq))

\* C32: whatever iteration steps, len(), repr() and rewind() were made on a
\* QuerySet over an unchanged collection, its result cache is a prefix of
\* the result sequence of the source (so it holds no document twice).
C32_CacheIsPrefix == IsPrefix(Ids_(CacheOf(1)), SourceSeq(1))

\* C33: every iterator of a QuerySet has yielded a prefix of the result
\* sequence, an iterator that ended has yielded all of it, and the
\* documents pulled from the source are those of the cache, each once.
C33_IteratorsComplete ==
    /\ \A i \in 1..Len(iters) :
          /\ IsPrefix(Ids_(iters[i].out), SourceSeq(1))
          /\ iters[i].done => Ids_(iters[i].out) = SourceSeq(1)
    /\ IsPrefix(Ids_(CacheOf(1)), SourceSeq(1))
    /\ qs[1].cursor_obj # <<>> => qs[1].cursor_obj[1].pos = Len(CacheOf(1))

\* C34: a QuerySet that is exhausted and holds a cached length holds the
\* number of documents of its result cache, also when count() ran before
\* the iteration and another client wrote to the collection in between.
C34_LenIsCacheSize ==
    \A q \in 1..nqs :
        (~qs[q].has_more /\ qs[q].len # NoneN) => qs[q].len = Len(CacheOf(q))

(***************************************************************************)
(* Properties of the driver cursor and of the compiled query a QuerySet    *)
(* holds.                                                                  *)
(***************************************************************************)
\* The driver cursor s holds has the options a cursor built now would have;
\* with _limit = 0 nothing is fetched and the driver's limit is left out.
BuiltFromCurrent(s) ==
    LET c == s.cursor_obj[1]
        n == NewCursor(s)
    IN  /\ c.query = CompileQuery(s)
        /\ c.projection = n.projection
        /\ c.sort = n.sort
        /\ c.skip = n.skip
        /\ s.limit # 0 => c.limit = n.limit
        /\ c.hint = n.hint
        /\ c.batch_size = n.batch_size
        /\ c.no_cursor_timeout = n.no_cursor_timeout

\* C35: a QuerySet that holds a driver cursor holds one built from its
\* current filter, projection, ordering, skip, limit, hint, batch size and
\* timeout, whatever the order of the chain calls was.
C35_CursorIsCurrent ==
    \A q \in 1..nqs : qs[q].cursor_obj # <<>> => BuiltFromCurrent(qs[q])

\* C36: the compiled query a QuerySet holds, and the query of the driver
\* cursor it holds, are the query compiled from its current criterion tree
\* and, with class checking on, its current class filter; so the QuerySet
\* that clear_cls_query(), only_classes(), exclude_classes() or
\* no_sub_classes() returns runs with the new class filter.
C36_QueryIsCurrent ==
    \A q \in 1..nqs :
        /\ qs[q].mongo_query # <<>> => qs[q].mongo_query[1] = CompileQuery(qs[q])
        /\ qs[q].cursor_obj # <<>> => qs[q].cursor_obj[1].query = CompileQuery(qs[q])

\* The Authors a chain of Author references starting at id passes through,
\* in steps steps.
RECURSIVE RefChain(_, _, _)
RefChain(st, id, steps) ==
    IF id = 0 \/ steps = 0 \/ ~st["Author"][id].present THEN {}
    ELSE {st["Author"][id].ref} \cup RefChain(st, st["Author"][id].ref, steps - 1)

\* Some Author reaches itself through Author references.
ReferenceCycle(st) == \E id \in Ids("Author") : id \in RefChain(st, id, NAuthors)

\* C37: delete() terminates on every finite collection state, also when
\* CASCADE rules form a reference cycle among the documents: the nested
\* cascading deletes never run out of call depth and reach the final bulk
\* delete.
C37_DeleteTerminates ==
    dlast.op = "delete" => dlast.err # "RecursionError"

\* Without a reference cycle among the stored documents delete() never runs
\* out of call depth.
AcyclicDeleteTerminates ==
    dlast.op = "delete" /\ ~ReferenceCycle(dlast.pre) => dlast.err # "RecursionError"

\* C38: a delete() that returned removed from the collection of the
\* QuerySet exactly the documents that iterating the QuerySet would have
\* yielded; so a QuerySet with limit 0, with a zero-width slice from 0 or
\* with the none flag deletes nothing.
C38_DeletesWhatIterationYields ==
    (dlast.op = "delete" /\ dlast.err = NoneV) =>
        Deleted(Parent(dlast.c.document.type)) = Range(DeleteIter(dlast.pre, dlast.c))

\* What iterating QuerySet s from the start yields, materialised.
IterItems(s, stored) == IterateOp(s, <<>>, stored).cache

\* The step reads queryset[key] with an integer key.
IndexStep == last'.op = "getitem_index"

\* C39: queryset[i] returns the i-th item iteration of the QuerySet yields,
\* materialised as iteration does in object, scalar and raw mode, and raises
\* IndexError when iteration yields no i-th item; on a QuerySet with limit 0
\* or the none flag queryset[0] raises IndexError and first() returns None.
C39_IndexAgreesWithIteration ==
    [][/\ IndexStep =>
              LET items == IterItems(qs[last'.q], coll)
              IN IF last'.arg < Len(items)
                 THEN last'.err = NoneV /\ last'.items = <<items[last'.arg + 1]>>
                 ELSE last'.err = "IndexError" /\ last'.items = <<>>
       /\ (last'.op = "first" /\ (qs[last'.q].limit = 0 \/ qs[last'.q].none)) =>
              last'.err = NoneV /\ last'.items = <<>>]_vars

\* Without a limit, the none flag and raw mode queryset[i] is the i-th item
\* of iteration.
PlainIndexAgrees ==
    [][(/\ IndexStep
        /\ qs[last'.q].limit = NoneN
        /\ ~qs[last'.q].none
        /\ ~qs[last'.q].as_pymongo) =>
              LET items == IterItems(qs[last'.q], coll)
              IN IF last'.arg < Len(items)
                 THEN last'.err = NoneV /\ last'.items = <<items[last'.arg + 1]>>
                 ELSE last'.err = "IndexError" /\ last'.items = <<>>]_vars

\* The field of object o is not in its change set, so that the collection
\* goes into it.
Open(g, o, field) ==
    ~(g.heap[o].tracked /\ \E i \in 1..Len(g.heap[o].changed) :
                               g.heap[o].changed[i] = <<field>>)

RECURSIVE Routes(_, _, _, _)
\* The paths that lead from object o to object e through fields that are
\* not marked changed, passing no object of visited and no object twice.
Routes(g, o, e, visited) ==
    IF o = e THEN {<<>>}
    ELSE LET self == g.heap[o]
             seen == visited \cup {o}
             by_child ==
                 IF self.child # 0 /\ self.child \notin seen /\ Open(g, o, "child")
                 THEN {<<"child">> \o r : r \in Routes(g, self.child, e, seen)}
                 ELSE {}
             by_items ==
                 IF ~Open(g, o, "items") THEN {}
                 ELSE UNION {{<<"items", IndexName(i - 1)>> \o r :
                                 r \in Routes(g, self.items[i], e, seen)} :
                             i \in {k \in 1..Len(self.items) : self.items[k] \notin seen}}
         IN by_child \cup by_items

\* The paths the last _get_changed_fields call returned.
Reported == Range(dop.out[1].changed)

\* Object e lies on a path from the object the call was made on, and has
\* changes.
ReachableChanged(e) ==
    /\ graph.heap[e].tracked /\ graph.heap[e].changed # <<>>
    /\ Routes(graph, dop.arg[1], e, {}) # {}

\* C40: a _get_changed_fields() call that returned reports every changed
\* path of every embedded document that is reachable from the document
\* through fields not themselves marked changed, under one of the paths that
\* lead to it: no embedded document is left out because its id equals the id
\* of its parent or of another embedded document.
C40_ReportsEveryEmbedded ==
    (dop.op = "_get_changed_fields" /\ dop.err = NoneV) =>
        \A e \in 1..NObjects : ReachableChanged(e) =>
            \A i \in 1..Len(graph.heap[e].changed) :
                \E route \in Routes(graph, dop.arg[1], e, {}) :
                    route \o graph.heap[e].changed[i] \in Reported

\* When the embedded documents have no id attribute, every changed path of
\* every reachable embedded document is reported.
NoIdReportsEveryEmbedded ==
    (dop.op = "_get_changed_fields" /\ dop.err = NoneV /\ ~graph.embedded_has_id) =>
        \A e \in 1..NObjects : ReachableChanged(e) =>
            \A i \in 1..Len(graph.heap[e].changed) :
                \E route \in Routes(graph, dop.arg[1], e, {}) :
                    route \o graph.heap[e].changed[i] \in Reported
====
